---- MODULE Spec2Model ----
(***************************************************************************)
(* Gesture-to-motion pipeline of the particle animation: the geometric     *)
(* gesture classifiers, the unanimous-vote gesture smoother of the         *)
(* hand-tracking hook, the hook's lifecycle state machine (state-machine   *)
(* and worker edition), and the gesture handling of the three simulation   *)
(* strategies (ParticleSystem, GPU hook, CPU particle component).          *)
(*                                                                         *)
(* Coordinates are the detector's normalised coordinates in hundredths:    *)
(* a keypoint (0.42, 0.30) is [x |-> 42, y |-> 30].  Distances are         *)
(* compared squared, so that every comparison of the source is exact.      *)
(***************************************************************************)
EXTENDS Integers, Sequences, FiniteSets, TLC

VARIABLES
    \* --- classifier harness (pure functions applied to one input) ---
    clsInput,         \* the hands handed to the classifiers
    clsCount,         \* result of the finger-count detectGesture, or "PENDING"
    clsNamed,         \* result of the named-combination detectGesture, or "PENDING"
    clsCpu,           \* result of the CPU component's inline classification, or "PENDING"
    \* --- hand-tracking hook with gesture smoothing ---
    handData,         \* handDataRef.current, the single-slot published detection result
    gestureBuffer,    \* gestureBufferRef.current, the smoothing window
    detectedGesture,  \* the committed (smoothed) gesture
    \* --- observers of the detector's output stream ---
    fedLabel,         \* the label last pushed into the window ("NONE" before the first)
    fedRun,           \* how many times in a row the latest pushes carried fedLabel
    cycleLabel,       \* classification of the latest detection cycle ("NONE" before the first)
    cycleRun,         \* how many cycles in a row had classification cycleLabel
    labelChanges,     \* how often the classification changed from one cycle to the next
    \* --- lifecycle of the hand-tracking hook, state-machine edition ---
    systemState,      \* SystemState held by useState
    error,            \* the error message, or NULL
    initRef,          \* initRef.current
    effectPhase,      \* "none", "mounted" (cleanup registered), "cleaned", "skipped"
    startPc,          \* where startSystem is suspended: the await it waits at
    watchdog,         \* "unset", "armed", "fired", "cleared"
    cameraRef,        \* "null", "created", "running", "stopped"
    visited,          \* observer: the values systemState has taken, in order
    failCalled,       \* observer: fail() has been called
    smFailure,        \* observer: the LandmarkSource failure that hit startSystem, or "NONE"
    \* --- lifecycle of the hand-tracking hook, worker edition ---
    wkInitRef,        \* initRef.current
    wkPhase,          \* "none", "mounted", "cleaned", "skipped"
    wkPc,             \* where setupCamera is suspended, "loop" once loop() was called
    wkIsRunning,      \* isRunning
    wkWorker,         \* "none", "alive", "terminated"
    wkLandmarker,     \* the worker's handLandmarker: "null" or "ready"
    wkFailure,        \* observer: the LandmarkSource failure that hit setupCamera, or "NONE"
    \* --- the three simulation strategies, as far as the gesture drives them ---
    currentShape,     \* ParticleSystem.currentShape
    targetColor,      \* ParticleSystem.targetColor, by palette key
    shapeEffectSeen,  \* the detectedGesture the app's shape effect last ran with
    gpuTargets,       \* useGPGPU targets.current: [current, previous]
    uCurrentPosition, \* uniform: the texture the simulation pass reads
    gpuRendered,      \* the render target the simulation pass last wrote
    uInit,            \* uniform: 1 until the first pass is over
    uShapeFactor,     \* uniform: morph factor, in 1/ShapeScale
    uMouse,           \* uniform: the gravity well
    particlesTexture, \* Particles: the texture useGPGPU returned to the last render
    uPositionTexture, \* uniform of the particle material: the texture it samples
    gpuCurrentGesture,   \* useGPGPU currentGesture.current
    targetGestureShape,  \* useGPGPU targetGestureShape.current
    cpuCurrentGesture,   \* CPUParticles currentGestureRef.current
    cpuTargetColor,      \* CPUParticles: the colour the material is blended towards
    \* --- ParticleSystem (CPU engine of the app) ---
    psCount,          \* this.count
    positions,        \* geometry attribute position (live positions), 3 per particle
    targetPositions,  \* this.targetPositions
    colors,           \* geometry attribute aColor, 3 per particle
    currentColor,     \* this.currentColor, <<r, g, b>> in 0..255
    psOps,            \* observer: shape changes and ticks with a hand so far
    psTicks,          \* observer: update calls so far
    psCall,           \* observer: the last call, <<"new">>, <<"setShape", type>> or <<"update", inputState>>
    sendInFlight,     \* state-machine hook: a hands.send call has not delivered its results yet
    wkRequest,        \* worker edition: a detect request waits in the worker's queue
    wkReply,          \* worker edition: the answer on its way back, [kind, landmarks]
    wkOutstanding,    \* worker edition: detect requests sent and not yet answered
    wkHandData,       \* worker edition: handDataRef.current
    wkDetectObs,      \* worker: what the last api.detect did, [calls, reply]
    audioStarted,     \* App state audioStarted
    hookEdition,      \* which state-machine hook the App runs on: "smoothed" or "plain"
    fboData,          \* GPU hook: what each render target holds, [kind, base]
    published,        \* observer: the landmark list of the last result the detector delivered
    \* --- App: effects and render loop ---
    appMounted,       \* "none", "mounted", "unmounted"
    frameIdRef,       \* frameIdRef.current: NULL or "pending"
    rafPending,       \* the browser: requested animation frames neither run nor cancelled
    loopSeen,         \* <<systemState, detectedGesture>> the render-loop effect last ran with, or <<>>
    updateInState     \* observer: the SystemState in which update was last called, or "NONE"

clsVars == <<clsInput, clsCount, clsNamed, clsCpu>>

hookVars == <<handData, gestureBuffer, detectedGesture, published>>

fedVars == <<fedLabel, fedRun>>

cycleVars == <<cycleLabel, cycleRun, labelChanges>>

streamVars == <<fedLabel, fedRun, cycleLabel, cycleRun, labelChanges>>

lifeVars == <<systemState, error, initRef, effectPhase, startPc, watchdog, cameraRef>>

lifeObs == <<visited, failCalled, smFailure>>

wkVars == <<wkInitRef, wkPhase, wkPc, wkIsRunning, wkWorker, wkLandmarker, wkFailure>>

appVars == <<currentShape, targetColor, shapeEffectSeen>>

gpuVars == <<gpuTargets, uCurrentPosition, gpuRendered, uInit, uShapeFactor, uMouse,
             gpuCurrentGesture, targetGestureShape, fboData, particlesTexture,
             uPositionTexture>>

cpuVars == <<cpuCurrentGesture, cpuTargetColor>>

stratVars == <<appVars, gpuVars, cpuVars>>

psVars == <<psCount, positions, targetPositions, colors, currentColor, psOps, psTicks, psCall>>

loopVars == <<appMounted, frameIdRef, loopSeen, updateInState, audioStarted, rafPending>>

\* Detection calls in flight.
flightVars == <<sendInFlight, wkRequest, wkReply, wkOutstanding, wkHandData, wkDetectObs>>

\* What the lifecycle steps and the synchronous detection cycle never touch.
engineVars == <<psVars, loopVars, flightVars>>

vars == <<clsInput, clsCount, clsNamed, clsCpu,
          handData, gestureBuffer, detectedGesture,
          fedLabel, fedRun, cycleLabel, cycleRun, labelChanges,
          systemState, error, initRef, effectPhase, startPc, watchdog, cameraRef,
          visited, failCalled, smFailure,
          wkInitRef, wkPhase, wkPc, wkIsRunning, wkWorker, wkLandmarker, wkFailure,
          currentShape, targetColor, shapeEffectSeen,
          gpuTargets, uCurrentPosition, gpuRendered, uInit, uShapeFactor, uMouse,
          gpuCurrentGesture, targetGestureShape, cpuCurrentGesture, cpuTargetColor,
          psCount, positions, targetPositions, colors, currentColor, psOps, psTicks, psCall,
          appMounted, frameIdRef, loopSeen, updateInState, published, sendInFlight,
          wkRequest, wkReply, wkOutstanding, wkHandData, fboData,
          hookEdition, audioStarted, particlesTexture, uPositionTexture, wkDetectObs,
          rafPending>>

\* What a JavaScript TypeError (property read on undefined) is modelled as.
THROW == "THROW"

Pt(px, py) == [x |-> px, y |-> py]

Sq(n) == n * n

\* Squared planar distance of two keypoints (Math.hypot / Math.sqrt(pow+pow), squared).
Dist2(p, q) == Sq(p.x - q.x) + Sq(p.y - q.y)

\* landmarks[i] in the source is 0-based.
LM(landmarks, i) == landmarks[i + 1]

\* landmarks[i] is undefined: reading .x or .y of it throws.
Missing(landmarks, idxs) == \E i \in idxs : i >= Len(landmarks)

Fingers == {"THUMB", "INDEX", "MIDDLE", "RING", "PINKY"}

(***************************************************************************)
(* Hands the detector can deliver.  A hand is the sequence of its          *)
(* keypoints; Skeleton(ext) is an upright hand (y grows downwards) with    *)
(* exactly the fingers of ext stretched out.                               *)
(***************************************************************************)
Skeleton(ext) ==
    << Pt(50, 80),                                                  \* 0 wrist
       Pt(45, 76), Pt(41, 71), Pt(38, 65),                          \* 1-3 thumb
       IF "THUMB" \in ext THEN Pt(32, 58) ELSE Pt(46, 62),          \* 4 thumb tip
       Pt(44, 60), Pt(43, 50),                                      \* 5-6 index
       IF "INDEX" \in ext THEN Pt(42, 40) ELSE Pt(44, 55),          \* 7
       IF "INDEX" \in ext THEN Pt(42, 30) ELSE Pt(45, 62),          \* 8 index tip
       Pt(50, 58), Pt(50, 47),                                      \* 9-10 middle
       IF "MIDDLE" \in ext THEN Pt(50, 36) ELSE Pt(50, 53),         \* 11
       IF "MIDDLE" \in ext THEN Pt(50, 26) ELSE Pt(50, 60),         \* 12 middle tip
       Pt(55, 60), Pt(56, 50),                                      \* 13-14 ring
       IF "RING" \in ext THEN Pt(56, 40) ELSE Pt(56, 55),           \* 15
       IF "RING" \in ext THEN Pt(57, 30) ELSE Pt(55, 62),           \* 16 ring tip
       Pt(60, 63), Pt(62, 55),                                      \* 17-18 pinky
       IF "PINKY" \in ext THEN Pt(63, 47) ELSE Pt(61, 59),          \* 19
       IF "PINKY" \in ext THEN Pt(64, 40) ELSE Pt(60, 65) >>        \* 20 pinky tip

\* The same hand moved by (dx, dy).
Shift(hand, dx, dy) == [i \in 1..Len(hand) |-> Pt(hand[i].x + dx, hand[i].y + dy)]

\* A malformed hand: only the first n keypoints.
Truncate(hand, n) == SubSeq(hand, 1, n)

(***************************************************************************)
(* Finger-count classifier (gesture detection engine, first variant).      *)
(***************************************************************************)
LANDMARKS ==
    [ WRIST |-> 0, THUMB_CMC |-> 1, THUMB_MCP |-> 2, THUMB_IP |-> 3, THUMB_TIP |-> 4,
      INDEX_MCP |-> 5, INDEX_TIP |-> 8, MIDDLE_MCP |-> 9, MIDDLE_TIP |-> 12,
      RING_MCP |-> 13, RING_TIP |-> 16, PINKY_MCP |-> 17, PINKY_TIP |-> 20 ]

\* tipIdx / mcpIdx chosen by the four "if (fingerName === ...)" lines.
TipIdx(fingerName) ==
    CASE fingerName = "INDEX"  -> LANDMARKS.INDEX_TIP
      [] fingerName = "MIDDLE" -> LANDMARKS.MIDDLE_TIP
      [] fingerName = "RING"   -> LANDMARKS.RING_TIP
      [] fingerName = "PINKY"  -> LANDMARKS.PINKY_TIP

McpIdx(fingerName) ==
    CASE fingerName = "INDEX"  -> LANDMARKS.INDEX_MCP
      [] fingerName = "MIDDLE" -> LANDMARKS.MIDDLE_MCP
      [] fingerName = "RING"   -> LANDMARKS.RING_MCP
      [] fingerName = "PINKY"  -> LANDMARKS.PINKY_MCP

\* The keypoints whose .x/.y isFingerExtended reads: the call throws when one is undefined.
\* (For the thumb, wrist and mcp are fetched but never dereferenced.)
isFingerExtendedThrows(landmarks, fingerName) ==
    IF fingerName = "THUMB"
    THEN Missing(landmarks, {LANDMARKS.THUMB_TIP, LANDMARKS.PINKY_MCP, LANDMARKS.THUMB_IP})
    ELSE Missing(landmarks, {TipIdx(fingerName), LANDMARKS.WRIST, McpIdx(fingerName)})

\* Margin of the four non-thumb fingers: tipDist > mcpDist * 1.2, squared: 25 tip^2 > 36 mcp^2.
isFingerExtended(landmarks, fingerName) ==
    IF fingerName = "THUMB"
    THEN LET tip      == LM(landmarks, LANDMARKS.THUMB_TIP)
             ip       == LM(landmarks, LANDMARKS.THUMB_IP)
             pinkyMCP == LM(landmarks, LANDMARKS.PINKY_MCP)
         IN  Dist2(tip, pinkyMCP) > Dist2(ip, pinkyMCP)
    ELSE LET wrist == LM(landmarks, LANDMARKS.WRIST)
             tip   == LM(landmarks, TipIdx(fingerName))
             mcp   == LM(landmarks, McpIdx(fingerName))
         IN  25 * Dist2(tip, wrist) > 36 * Dist2(mcp, wrist)

\* A table that forgets the thumb's place: every count one label early.
GestureOfCountShifted(fingersUp) ==
    CASE fingersUp = 1 -> "FLOWER"
      [] fingersUp = 2 -> "SATURN"
      [] fingersUp = 3 -> "HEART"
      [] fingersUp = 4 -> "FIREWORKS"
      [] OTHER         -> "SPHERE"

\* The switch of detectGesture.
GestureOfCount(fingersUp) ==
    CASE fingersUp = 2 -> "FLOWER"
      [] fingersUp = 3 -> "SATURN"
      [] fingersUp = 4 -> "HEART"
      [] fingersUp = 5 -> "FIREWORKS"
      [] OTHER         -> "SPHERE"

\* detectGesture(hands), finger-count variant: the label, or THROW.
detectGesture(hands) ==
    IF Len(hands) = 0 THEN "SPHERE"
    ELSE LET hand == hands[1]
         IN  IF \E f \in Fingers : isFingerExtendedThrows(hand, f)
             THEN THROW
             ELSE GestureOfCount(Cardinality({f \in Fingers : isFingerExtended(hand, f)}))

(***************************************************************************)
(* Named-combination classifier (gesture detection engine, second variant).*)
(***************************************************************************)
LANDMARKS_N ==
    [ WRIST |-> 0, THUMB_TIP |-> 4, THUMB_IP |-> 3, INDEX_TIP |-> 8, INDEX_PIP |-> 6,
      MIDDLE_TIP |-> 12, MIDDLE_PIP |-> 10, RING_TIP |-> 16, RING_PIP |-> 14,
      PINKY_TIP |-> 20, PINKY_PIP |-> 18 ]

isFingerExtendedNThrows(landmarks, tipIdx, pipIdx) ==
    Missing(landmarks, {tipIdx, LANDMARKS_N.WRIST, pipIdx})

\* tipDist > pipDist * 1.1, squared: 100 tip^2 > 121 pip^2.
isFingerExtendedN(landmarks, tipIdx, pipIdx) ==
    LET wrist == LM(landmarks, LANDMARKS_N.WRIST)
        tip   == LM(landmarks, tipIdx)
        pip   == LM(landmarks, pipIdx)
    IN  100 * Dist2(tip, wrist) > 121 * Dist2(pip, wrist)

\* thumbIsHighest is an && chain: a later tip is read only when the earlier comparisons held.
thumbIsHighestThrows(landmarks) ==
    LET y(i) == LM(landmarks, i).y
        t    == LANDMARKS_N.THUMB_TIP
    IN  \/ Missing(landmarks, {t, LANDMARKS_N.INDEX_TIP})
        \/ /\ y(t) < y(LANDMARKS_N.INDEX_TIP)
           /\ \/ Missing(landmarks, {LANDMARKS_N.MIDDLE_TIP})
              \/ /\ y(t) < y(LANDMARKS_N.MIDDLE_TIP)
                 /\ \/ Missing(landmarks, {LANDMARKS_N.RING_TIP})
                    \/ /\ y(t) < y(LANDMARKS_N.RING_TIP)
                       /\ Missing(landmarks, {LANDMARKS_N.PINKY_TIP})

thumbIsHighest(landmarks) ==
    LET y(i) == LM(landmarks, i).y
        t    == LANDMARKS_N.THUMB_TIP
    IN  /\ y(t) < y(LANDMARKS_N.INDEX_TIP)
        /\ y(t) < y(LANDMARKS_N.MIDDLE_TIP)
        /\ y(t) < y(LANDMARKS_N.RING_TIP)
        /\ y(t) < y(LANDMARKS_N.PINKY_TIP)

\* The four consts of isThumbUp are all evaluated before the return.
isThumbUpThrows(landmarks) ==
    \/ thumbIsHighestThrows(landmarks)
    \/ Missing(landmarks, {LANDMARKS_N.THUMB_IP})
    \/ isFingerExtendedNThrows(landmarks, LANDMARKS_N.INDEX_TIP, LANDMARKS_N.INDEX_PIP)
    \/ isFingerExtendedNThrows(landmarks, LANDMARKS_N.MIDDLE_TIP, LANDMARKS_N.MIDDLE_PIP)

\* thumbExtended: thumbTip.y < thumbIp.y - 0.05.
isThumbUp(landmarks) ==
    LET thumbExtended ==
            LM(landmarks, LANDMARKS_N.THUMB_TIP).y < LM(landmarks, LANDMARKS_N.THUMB_IP).y - 5
        indexCurled  == ~isFingerExtendedN(landmarks, LANDMARKS_N.INDEX_TIP, LANDMARKS_N.INDEX_PIP)
        middleCurled == ~isFingerExtendedN(landmarks, LANDMARKS_N.MIDDLE_TIP, LANDMARKS_N.MIDDLE_PIP)
    IN  thumbIsHighest(landmarks) /\ thumbExtended /\ indexCurled /\ middleCurled

isPeaceSignThrows(landmarks) ==
    \/ isFingerExtendedNThrows(landmarks, LANDMARKS_N.INDEX_TIP, LANDMARKS_N.INDEX_PIP)
    \/ isFingerExtendedNThrows(landmarks, LANDMARKS_N.MIDDLE_TIP, LANDMARKS_N.MIDDLE_PIP)
    \/ isFingerExtendedNThrows(landmarks, LANDMARKS_N.RING_TIP, LANDMARKS_N.RING_PIP)
    \/ isFingerExtendedNThrows(landmarks, LANDMARKS_N.PINKY_TIP, LANDMARKS_N.PINKY_PIP)

isPeaceSign(landmarks) ==
    /\ isFingerExtendedN(landmarks, LANDMARKS_N.INDEX_TIP, LANDMARKS_N.INDEX_PIP)
    /\ isFingerExtendedN(landmarks, LANDMARKS_N.MIDDLE_TIP, LANDMARKS_N.MIDDLE_PIP)
    /\ ~isFingerExtendedN(landmarks, LANDMARKS_N.RING_TIP, LANDMARKS_N.RING_PIP)
    /\ ~isFingerExtendedN(landmarks, LANDMARKS_N.PINKY_TIP, LANDMARKS_N.PINKY_PIP)

\* Two-hand clasp check of the named variant: wrists closer than 0.1.
claspThrows(hands) ==
    Missing(hands[1], {LANDMARKS_N.WRIST}) \/ Missing(hands[2], {LANDMARKS_N.WRIST})

isClasp(hands) ==
    Dist2(LM(hands[1], LANDMARKS_N.WRIST), LM(hands[2], LANDMARKS_N.WRIST)) < Sq(10)

\* Single-hand part of detectGesture, named variant.
singleHandGesture(primaryHand) ==
    IF isThumbUpThrows(primaryHand) THEN THROW
    ELSE IF isThumbUp(primaryHand) THEN "THUMBS_UP"
    ELSE IF isPeaceSignThrows(primaryHand) THEN THROW
    ELSE IF isPeaceSign(primaryHand) THEN "PEACE"
    ELSE "IDLE"

\* The named variant with the single-hand gestures tried before the clasp check.
detectGestureNSingleFirst(hands) ==
    IF Len(hands) = 0 THEN "IDLE"
    ELSE IF singleHandGesture(hands[1]) # "IDLE" THEN singleHandGesture(hands[1])
    ELSE IF Len(hands) = 2 /\ claspThrows(hands) THEN THROW
    ELSE IF Len(hands) = 2 /\ isClasp(hands) THEN "TWO_HAND_CLASP"
    ELSE "IDLE"

\* detectGesture(hands), named variant: the label, or THROW.
detectGestureN(hands) ==
    IF Len(hands) = 0 THEN "IDLE"
    ELSE IF Len(hands) = 2 /\ claspThrows(hands) THEN THROW
    ELSE IF Len(hands) = 2 /\ isClasp(hands) THEN "TWO_HAND_CLASP"
    ELSE singleHandGesture(hands[1])

(***************************************************************************)
(* Inline classification of the CPU particle component's frame callback.   *)
(* It is applied to well-formed hands only.                                *)
(***************************************************************************)
\* Two-hand clasp check: landmark 9 of both hands closer than 0.25.
cpuIsClasp(hands) ==
    Len(hands) = 2 /\ Dist2(LM(hands[1], 9), LM(hands[2], 9)) < Sq(25)

cpuDetectGesture(hands) ==
    IF cpuIsClasp(hands) THEN "CLASP"
    ELSE IF Len(hands) > 0
    THEN LET hand      == hands[1]
             thumbTip  == LM(hand, 4)
             indexTip  == LM(hand, 8)
             middleTip == LM(hand, 12)
             ringTip   == LM(hand, 16)
             thumbUp   == thumbTip.y < indexTip.y /\ thumbTip.y < middleTip.y
             indexUp   == indexTip.y < LM(hand, 6).y
             middleUp  == middleTip.y < LM(hand, 10).y
             ringDown  == ringTip.y > LM(hand, 14).y
         IN  IF thumbUp /\ ~indexUp THEN "THUMBS_UP"
             ELSE IF indexUp /\ middleUp /\ ringDown THEN "PEACE"
             ELSE "IDLE"
    ELSE "IDLE"

(***************************************************************************)
(* Hand-tracking hook, state-machine edition with gesture smoothing:       *)
(* the onResults callback.                                                 *)
(***************************************************************************)
GESTURE_CONFIDENCE_THRESHOLD == 15

\* useRef / useState initial values of the hook.
\* The edition with the smoother publishes every result; the edition without
\* it (no detectedGesture) writes the slot only for results with hands.
HookEditions == {"smoothed", "plain"}

SlotInit ==
    /\ handData = [hands |-> <<>>, rawLandmarks |-> <<>>, distance |-> 999]
    /\ gestureBuffer = <<>>
    /\ detectedGesture = "SPHERE"
    /\ published = <<>>

HookInit ==
    /\ hookEdition = "smoothed"
    /\ SlotInit

\* (1.0 - l[9].x) * 2.0 - 1.0, in hundredths.
MirrorCoord(c) == (100 - c) * 2 - 100

\* results.multiHandLandmarks.map(l => ({x, y, z})).
MappedHands(landmarks) ==
    [i \in 1..Len(landmarks) |->
        [x |-> MirrorCoord(LM(landmarks[i], 9).x),
         y |-> MirrorCoord(LM(landmarks[i], 9).y),
         z |-> 0]]

\* A window trimmed one sample early (>= for >): it never holds the threshold's count.
PushSampleEarlyShift(buffer, g) ==
    LET pushed == Append(buffer, g)
    IN  IF Len(pushed) >= GESTURE_CONFIDENCE_THRESHOLD THEN Tail(pushed) ELSE pushed

\* push, then shift() when the window is longer than the threshold.
PushSample(buffer, g) ==
    LET pushed == Append(buffer, g)
    IN  IF Len(pushed) > GESTURE_CONFIDENCE_THRESHOLD THEN Tail(pushed) ELSE pushed

\* gestureBufferRef.current.length === GESTURE_CONFIDENCE_THRESHOLD
WindowFull(buffer) == Len(buffer) = GESTURE_CONFIDENCE_THRESHOLD

\* some() for every(): one matching entry is enough.
someMatch(buffer, g) == \E i \in 1..Len(buffer) : buffer[i] = g

\* gestureBufferRef.current.every(g => g === instantaneousGesture)
allMatch(buffer, g) == \A i \in 1..Len(buffer) : buffer[i] = g

\* What the detector delivers in one cycle: no hand, a thumbs-up hand, an open hand.
DetectorResults == {<<>>, <<Skeleton({"THUMB"})>>, <<Skeleton(Fingers)>>}

\* What the detector delivers in one cycle where the strategies are compared: no
\* hand, a thumbs-up hand, a peace-sign hand.
StrategyResults == {<<>>, <<Skeleton({"THUMB"})>>, <<Skeleton({"INDEX", "MIDDLE"})>>}

\* detectGesture (finger-count variant) tabulated over the detector's results.
Classified == [landmarks \in DetectorResults \cup StrategyResults |-> detectGesture(landmarks)]

\* detectGesture (named variant) tabulated over the detector's results.
ClassifiedN == [landmarks \in StrategyResults |-> detectGestureN(landmarks)]

\* The inline classification of the CPU particle component, tabulated.
ClassifiedCpu == [landmarks \in StrategyResults |-> cpuDetectGesture(landmarks)]

\* hands.onResults((results) => ...), results.multiHandLandmarks = landmarks.
\* A throwing detectGesture leaves the callback after handDataRef was written.
onResults(landmarks) ==
    /\ published' = landmarks
    /\ IF Len(landmarks) > 0
       THEN LET instantaneousGesture == Classified[landmarks]
                buffer == PushSample(gestureBuffer, instantaneousGesture)
            IN  /\ handData' = [hands |-> MappedHands(landmarks),
                                rawLandmarks |-> landmarks,
                                distance |-> 999]
                /\ IF instantaneousGesture = THROW
                   THEN UNCHANGED <<gestureBuffer, detectedGesture>>
                   ELSE /\ gestureBuffer' = buffer
                        /\ detectedGesture' =
                               IF WindowFull(buffer) /\ allMatch(buffer, instantaneousGesture)
                               THEN instantaneousGesture
                               ELSE detectedGesture
       ELSE /\ handData' = [handData EXCEPT !.hands = <<>>]
            /\ UNCHANGED <<gestureBuffer, detectedGesture>>

\* The results callback of the edition without the smoother: a result with
\* hands replaces the slot, a result without hands leaves it as it is.
onResultsPlain(landmarks) ==
    /\ published' = landmarks
    /\ handData' = IF Len(landmarks) > 0
                   THEN [hands |-> MappedHands(landmarks),
                         rawLandmarks |-> landmarks,
                         distance |-> 999]
                   ELSE handData
    /\ UNCHANGED <<gestureBuffer, detectedGesture>>

(***************************************************************************)
(* The detector's output stream and its observers.                         *)
(***************************************************************************)
StreamInit ==
    /\ fedLabel = "NONE"
    /\ fedRun = 0
    /\ cycleLabel = "NONE"
    /\ cycleRun = 0
    /\ labelChanges = 0

CapRun(n) == IF n >= GESTURE_CONFIDENCE_THRESHOLD THEN GESTURE_CONFIDENCE_THRESHOLD ELSE n + 1

\* The samples handed to the smoother: the classifications of the cycles with a hand.
ObserveFed(landmarks) ==
    LET label == Classified[landmarks]
    IN  IF Len(landmarks) > 0 /\ label # THROW
        THEN /\ fedLabel' = label
             /\ fedRun' = IF label = fedLabel THEN CapRun(fedRun) ELSE 1
        ELSE UNCHANGED <<fedLabel, fedRun>>

\* The classification of every cycle, the cycles without a hand included.
ObserveCycle(landmarks) ==
    LET label == Classified[landmarks]
    IN  /\ cycleLabel' = label
        /\ cycleRun' = IF label = cycleLabel THEN CapRun(cycleRun) ELSE 1
        /\ labelChanges' =
               IF label = cycleLabel \/ cycleLabel = "NONE" THEN labelChanges ELSE labelChanges + 1

(***************************************************************************)
(* ParticleSystem: shape generators, constructor, setShape, update.        *)
(* A coordinate is an integer number of scene units; what the code stores  *)
(* in a Float32Array is rounded to the nearest such number.  A generator   *)
(* that calls Math.random() has several outputs; the trigonometric values  *)
(* of the deterministic ones are tabulated for the particle counts used.   *)
(***************************************************************************)
\* Keys of SHAPES.
SHAPES == {"SPHERE", "HEART", "FLOWER", "SATURN", "FIREWORKS"}

\* setShape's colour target, by key of COLORS.
\* A palette that ignores the shape (used to test the properties).
ShapeColorDefault(type) == "DEFAULT"

ShapeColor(type) == IF type \in {"HEART", "FLOWER", "SATURN", "FIREWORKS"} THEN type ELSE "DEFAULT"

\* COLORS, <<r, g, b>> in 0..255.
COLORS ==
    [DEFAULT   |-> <<0, 255, 255>>,
     HEART     |-> <<255, 0, 85>>,
     FLOWER    |-> <<255, 204, 0>>,
     SATURN    |-> <<255, 170, 136>>,
     FIREWORKS |-> <<255, 255, 255>>]

\* n / m rounded to the nearest integer (m > 0).
RoundDiv(n, m) ==
    IF n >= 0 THEN (2 * n + m) \div (2 * m) ELSE -((2 * (-n) + m) \div (2 * m))

\* A two-element array in place of a three-element one (a wrong stride).
DataLengthShort(count) == count * 2

\* new Float32Array(count * 3)
DataLength(count) == count * 3

\* The sphere loop: particle i of n on a sphere of the given radius,
\* phi = acos(-1 + 2i/n), theta = sqrt(n pi) phi; cos and sin in 1/1000.
SpherePoint(radius, n, i) ==
    LET unit == CASE n = 1 /\ i = 0 -> <<0, 0, -1000>>
                  [] n = 2 /\ i = 0 -> <<0, 0, -1000>>
                  [] n = 2 /\ i = 1 -> <<-700, -714, 0>>
                  [] n = 3 /\ i = 0 -> <<0, 0, -1000>>
                  [] n = 3 /\ i = 1 -> <<862, -383, -333>>
                  [] n = 3 /\ i = 2 -> <<-758, -561, 333>>
                  [] OTHER          -> <<0, 0, -1000>>
    IN  <<RoundDiv(radius * unit[1], 1000),
          RoundDiv(radius * unit[2], 1000),
          RoundDiv(radius * unit[3], 1000)>>

\* Math.floor(count * 0.7)
SaturnSphereCount(count) == (count * 7) \div 10

\* The points one generator call can give particle i (0-based) of count.
ShapePoints(type, count, i) ==
    CASE type = "SPHERE"    -> {SpherePoint(60, count, i)}
      [] type = "HEART"     -> {<<0, 18, z>> : z \in {-5, 4}}
      [] type = "FLOWER"    -> {<<-40, 30, -25>>, <<25, 30, 10>>}
      [] type = "SATURN"    ->
            IF i < SaturnSphereCount(count)
            THEN {SpherePoint(40, SaturnSphereCount(count), i)}
            ELSE {<<x, RoundDiv(-588 * x, 1000), 1>> : x \in {-75, 62}}
      [] type = "FIREWORKS" -> {<<5, -6, -52>>, <<-120, 45, 20>>}

\* data[i * 3], data[i * 3 + 1], data[i * 3 + 2] of every particle, as one array.
Flatten(points, len) ==
    [k \in 1..len |-> points[(k - 1) \div 3][((k - 1) % 3) + 1]]

\* SHAPES[type](count): the arrays the generator can return.
ShapeOutputs(type, count) ==
    {Flatten(points, DataLength(count)) :
        points \in {f \in [0..(count - 1) -> UNION {ShapePoints(type, count, i) : i \in 0..(count - 1)}] :
                        \A i \in 0..(count - 1) : f[i] \in ShapePoints(type, count, i)}}

\* Every slot of the colour array set to the colour c.
ColorArray(c, len) == [k \in 1..len |-> c[((k - 1) % 3) + 1]]

\* new ParticleSystem(scene), for a particle count.
PsInit(count) ==
    /\ psCount = count
    /\ targetPositions \in ShapeOutputs("SPHERE", count)
    /\ positions = targetPositions
    /\ colors = ColorArray(COLORS["DEFAULT"], DataLength(count))
    /\ currentColor = COLORS["DEFAULT"]
    /\ psOps = 0
    /\ psTicks = 0
    /\ psCall = <<"new">>

\* Shape ids setShape can be handed that are no keys of SHAPES.
UnknownShapes == {"CUBE", "IDLE"}

\* setShape(type)
setShape(type) ==
    IF type \in SHAPES
    THEN /\ currentShape' = type
         /\ targetPositions' \in ShapeOutputs(type, psCount)
         /\ targetColor' = ShapeColor(type)
    ELSE UNCHANGED <<currentShape, targetPositions, targetColor>>

\* speed = 0.03 + Math.random() * 0.02, in 1/1000.
Speeds == {30, 40}

\* (Math.random() - 0.5) * 10
Jitters == {-5, 4}

\* The interaction radius of update.
InteractRadius == 40

\* Math.sqrt, rounded to the nearest integer.
RECURSIVE SqrtFrom(_, _)
SqrtFrom(n, r) == IF (2 * r + 1) * (2 * r + 1) > 4 * n THEN r ELSE SqrtFrom(n, r + 1)

Sqrt(n) == SqrtFrom(n, 0)

\* The lerp with its sign turned round.
LerpAway(a, b, speed) == a - RoundDiv((b - a) * speed, 1000)

\* a += (b - a) * speed, speed in 1/1000, stored rounded.
Lerp(a, b, speed) == a + RoundDiv((b - a) * speed, 1000)

\* interactX, interactY, active, repel of update, from inputState (x, y in 1/100).
Interaction(inputState) ==
    IF inputState.active
    THEN [active |-> TRUE,
          x      |-> RoundDiv(inputState.x * 80, 100),
          y      |-> RoundDiv(inputState.y * 80, 100),
          repel  |-> inputState.gesture = "OPEN" \/ inputState.mouseHover]
    ELSE [active |-> FALSE, x |-> 0, y |-> 0, repel |-> FALSE]

\* The targets (tx, ty, tz) one pass of the loop can lerp the particle at p towards:
\* its shape target t, pushed away from or replaced by the interaction point.
EffectiveTargets(p, t, force) ==
    LET dx    == p[1] - force.x
        dy    == p[2] - force.y
        dz    == p[3]
        dist2 == dx * dx + dy * dy + dz * dz
        dist  == Sqrt(dist2)
    IN  IF force.active /\ dist2 < InteractRadius * InteractRadius
        THEN IF force.repel
             THEN {<<t[1] + RoundDiv(dx * (InteractRadius - dist) * 5, InteractRadius),
                     t[2] + RoundDiv(dy * (InteractRadius - dist) * 5, InteractRadius),
                     t[3] + RoundDiv(dz * (InteractRadius - dist) * 5, InteractRadius)>>}
             ELSE {<<force.x + jx, force.y + jy, t[3]>> : jx \in Jitters, jy \in Jitters}
        ELSE {t}

\* Where one pass of the loop can leave the particle at p with shape target t.
ParticleNext(p, t, force) ==
    {<<Lerp(p[1], e[1], speed), Lerp(p[2], e[2], speed), Lerp(p[3], e[3], speed)>> :
        e \in EffectiveTargets(p, t, force), speed \in Speeds}

\* Particle i (0-based) of an array.
PointAt(data, i) == <<data[3 * i + 1], data[3 * i + 2], data[3 * i + 3]>>

\* The position arrays one update can leave behind.
UpdatedPositions(pos, target, count, force) ==
    {Flatten(points, Len(pos)) :
        points \in {f \in [0..(count - 1) ->
                            UNION {ParticleNext(PointAt(pos, i), PointAt(target, i), force) : i \in 0..(count - 1)}] :
                        \A i \in 0..(count - 1) :
                            f[i] \in ParticleNext(PointAt(pos, i), PointAt(target, i), force)}}

\* this.currentColor.lerp(this.targetColor, 0.05)
LerpColor(c, target) == [k \in 1..3 |-> Lerp(c[k], target[k], 50)]

\* update(time, inputState): colour blend, the particle loop, the colour array.  (uTime
\* and the shimmer sin(time + i) * 0.1 of the colour array are left out.)
update(inputState) ==
    /\ currentColor' = LerpColor(currentColor, COLORS[targetColor])
    /\ positions' \in UpdatedPositions(positions, targetPositions, psCount, Interaction(inputState))
    /\ colors' = ColorArray(currentColor', Len(colors))

(***************************************************************************)
(* Initial state of the two editions of the hook's lifecycle (their        *)
(* actions follow below).                                                  *)
(***************************************************************************)
NULL == "NULL"

LifeInit ==
    /\ systemState = "BOOTSTRAP"
    /\ error = NULL
    /\ initRef = FALSE
    /\ effectPhase = "none"
    /\ startPc = "idle"
    /\ watchdog = "unset"
    /\ cameraRef = "null"
    /\ visited = <<"BOOTSTRAP">>
    /\ failCalled = FALSE
    /\ smFailure = "NONE"

WkInit ==
    /\ wkInitRef = FALSE
    /\ wkPhase = "none"
    /\ wkPc = "idle"
    /\ wkIsRunning = FALSE
    /\ wkWorker = "none"
    /\ wkLandmarker = "null"
    /\ wkFailure = "NONE"

StratInit ==
    /\ currentShape = "SPHERE"
    /\ targetColor = "DEFAULT"
    /\ shapeEffectSeen = "NONE"
    /\ gpuTargets = [current |-> "fbo1", previous |-> "fbo2"]
    /\ uCurrentPosition = NULL
    /\ gpuRendered = NULL
    /\ uInit = 1
    /\ uShapeFactor = 0
    /\ uMouse = [x |-> 0, y |-> 0, z |-> 0]
    /\ particlesTexture = "fbo2"
    /\ uPositionTexture = NULL
    /\ gpuCurrentGesture = "IDLE"
    /\ targetGestureShape = NULL
    /\ cpuCurrentGesture = "IDLE"
    /\ cpuTargetColor = "00ffff"

\* Before the App component is mounted: no frame requested, no effect has run.
LoopInit ==
    /\ appMounted = "none"
    /\ frameIdRef = NULL
    /\ loopSeen = <<>>
    /\ updateInState = "NONE"
    /\ audioStarted = FALSE
    /\ rafPending = 0

\* No answer on its way; api.detect's answer null; its answer with landmarks.
NoReply == [kind |-> "none", landmarks |-> <<>>]

NullReply == [kind |-> "null", landmarks |-> <<>>]

ResultReply(l) == [kind |-> "result", landmarks |-> l]

\* A render target nothing has been rendered to: `base` names what its
\* storage holds (zeros, or whatever an earlier use left there).
Unwritten(base) == [kind |-> "raw", base |-> base]

InitialContents == {Unwritten("zero"), Unwritten("stale")}

\* fbo2 is the target the first frame reads.
FboInit(readContent) ==
    fboData = [fbo1 |-> Unwritten("zero"), fbo2 |-> readContent]

FlightInit ==
    /\ sendInFlight = FALSE
    /\ wkRequest = FALSE
    /\ wkReply = NoReply
    /\ wkOutstanding = 0
    /\ wkHandData = [hands |-> <<>>, distance |-> 999, isHandshake |-> FALSE]
    /\ wkDetectObs = [calls |-> <<>>, reply |-> NoReply]

(***************************************************************************)
(* SpecSmoother: the smoother under every stream of detector results.      *)
(***************************************************************************)
DetectionCycle ==
    \E landmarks \in DetectorResults :
        /\ onResults(landmarks)
        /\ ObserveFed(landmarks)
        /\ UNCHANGED <<hookEdition, clsVars, cycleVars, lifeVars, lifeObs, wkVars, stratVars, engineVars>>

IdleHarness ==
    /\ clsInput = [hands |-> <<>>, ext |-> {}, off |-> <<0, 0>>]
    /\ clsCount = "PENDING"
    /\ clsNamed = "PENDING"
    /\ clsCpu = "PENDING"

SmInit ==
    /\ IdleHarness
    /\ HookInit
    /\ StreamInit
    /\ LifeInit
    /\ WkInit
    /\ StratInit
    /\ FboInit(Unwritten("zero"))
    /\ PsInit(0)
    /\ LoopInit
    /\ FlightInit

SmNext == DetectionCycle

SpecSmoother == SmInit /\ [][SmNext]_vars

(***************************************************************************)
(* SpecLatency: the smoother observed cycle by cycle, under streams whose  *)
(* classification changes at most MaxLabelChanges times.                   *)
(***************************************************************************)
MaxLabelChanges == 3

ObservedCycle ==
    \E landmarks \in DetectorResults :
        /\ \/ Classified[landmarks] = cycleLabel
           \/ cycleLabel = "NONE"
           \/ labelChanges < MaxLabelChanges
        /\ onResults(landmarks)
        /\ ObserveFed(landmarks)
        /\ ObserveCycle(landmarks)
        /\ UNCHANGED <<hookEdition, clsVars, lifeVars, lifeObs, wkVars, stratVars, engineVars>>

LatNext == ObservedCycle

SpecLatency == SmInit /\ [][LatNext]_vars

(***************************************************************************)
(* Lifecycle of the hand-tracking hook, state-machine edition: the effect, *)
(* the asynchronous startSystem (one action per await), the watchdog and   *)
(* the effect cleanup.  How long an await takes is up to the browser, the  *)
(* network and the user (the camera permission prompt), so the watchdog    *)
(* may fire between any two steps.                                         *)
(***************************************************************************)
\* err.message of a rejected step: possibly empty.
ErrMessages == {"", "NotAllowedError"}

\* setError(`${msg}: ${err?.message || 'Unknown Error'}`), as the parts of the string.
ErrorText(msg, errMessage) ==
    <<msg, ": ", IF errMessage = "" THEN "Unknown Error" ELSE errMessage>>

\* The values setSystemState is called with, appended when they change the state.
Enter(seen, newState) ==
    IF seen[Len(seen)] = newState THEN seen ELSE Append(seen, newState)

\* The state startSystem moves to when the await at pc is over.
StageAfter(pc) ==
    CASE pc = "start"       -> "LOADING_ASSETS"
      [] pc = "waitGlobals" -> "INITIALIZING_AI"
      [] pc = "cameraStart" -> "READY"

\* The systemState the effect's closures read: the effect runs once (deps []), so
\* transition, onFrame and the watchdog see the value of the first render.
ClosureSystemState(live) == "BOOTSTRAP"

\* The initRef guard left out: every run of the effect starts startSystem again.
NeverInitialised(ref) == FALSE

\* if (initRef.current) return
AlreadyInitialised(ref) == ref

\* fail(msg, err) inside startSystem's catch: startSystem is over.
FailStart(kind, errMessage) ==
    /\ error' = ErrorText("Initialization Failed", errMessage)
    /\ systemState' = "ERROR"
    /\ startPc' = "done"
    /\ failCalled' = TRUE
    /\ smFailure' = kind

\* useEffect(() => { ... }, []): guard, watchdog timer, startSystem() up to its first await.
HookEffect ==
    /\ effectPhase \in {"none", "cleaned"}
    /\ IF AlreadyInitialised(initRef)
       THEN /\ effectPhase' = "skipped"
            /\ UNCHANGED <<systemState, error, initRef, startPc, watchdog, cameraRef, lifeObs>>
       ELSE /\ initRef' = TRUE
            /\ watchdog' = "armed"
            /\ systemState' = StageAfter("start")
            /\ visited' = Enter(visited, StageAfter("start"))
            /\ startPc' = "waitGlobals"
            /\ effectPhase' = "mounted"
            /\ UNCHANGED <<error, cameraRef, failCalled, smFailure>>
    /\ UNCHANGED <<hookEdition, clsVars, hookVars, streamVars, wkVars, stratVars, engineVars>>

\* waitForGlobals is over: the globals are there (then Hands is constructed, which may
\* throw, and getUserMedia is called), or the wait timed out.
AfterGlobals ==
    /\ startPc = "waitGlobals"
    /\ \/ /\ systemState' = StageAfter("waitGlobals")
          /\ visited' = Enter(visited, StageAfter("waitGlobals"))
          /\ startPc' = "getUserMedia"
          /\ UNCHANGED <<error, failCalled, smFailure>>
       \/ /\ FailStart("globals", "MediaPipe globals (Hands/Camera) not found. Check Internet/CDN.")
          /\ visited' = Enter(visited, "ERROR")
       \/ \E m \in ErrMessages :
            /\ FailStart("detector", m)
            /\ visited' = Enter(Enter(visited, StageAfter("waitGlobals")), "ERROR")
    /\ UNCHANGED <<initRef, effectPhase, watchdog, cameraRef>>
    /\ UNCHANGED <<hookEdition, clsVars, hookVars, streamVars, wkVars, stratVars, engineVars>>

\* getUserMedia is over: granted (video.play() is called) or denied.
AfterUserMedia ==
    /\ startPc = "getUserMedia"
    /\ \/ /\ startPc' = "videoPlay"
          /\ UNCHANGED <<systemState, error, lifeObs>>
       \/ \E m \in ErrMessages :
            /\ FailStart("permission", m)
            /\ visited' = Enter(visited, "ERROR")
    /\ UNCHANGED <<initRef, effectPhase, watchdog, cameraRef>>
    /\ UNCHANGED <<hookEdition, clsVars, hookVars, streamVars, wkVars, stratVars, engineVars>>

\* video.play() is over: the camera is created and camera.start() called, or play failed.
AfterVideoPlay ==
    /\ startPc = "videoPlay"
    /\ \/ /\ startPc' = "cameraStart"
          /\ cameraRef' = "created"
          /\ UNCHANGED <<systemState, error, lifeObs>>
       \/ \E m \in ErrMessages :
            /\ FailStart("cameraStart", m)
            /\ visited' = Enter(visited, "ERROR")
            /\ UNCHANGED cameraRef
    /\ UNCHANGED <<initRef, effectPhase, watchdog>>
    /\ UNCHANGED <<hookEdition, clsVars, hookVars, streamVars, wkVars, stratVars, engineVars>>

\* camera.start() is over: transition(READY), or the start failed.
AfterCameraStart ==
    /\ startPc = "cameraStart"
    /\ \/ /\ systemState' = StageAfter("cameraStart")
          /\ visited' = Enter(visited, StageAfter("cameraStart"))
          /\ startPc' = "done"
          /\ cameraRef' = IF cameraRef = "stopped" THEN "stopped" ELSE "running"
          /\ UNCHANGED <<error, failCalled, smFailure>>
       \/ \E m \in ErrMessages :
            /\ FailStart("cameraStart", m)
            /\ visited' = Enter(visited, "ERROR")
            /\ UNCHANGED cameraRef
    /\ UNCHANGED <<initRef, effectPhase, watchdog>>
    /\ UNCHANGED <<hookEdition, clsVars, hookVars, streamVars, wkVars, stratVars, engineVars>>

\* The 15 s timer fires.
WatchdogFire ==
    /\ watchdog = "armed"
    /\ watchdog' = "fired"
    /\ IF ClosureSystemState(systemState) \notin {"READY", "ERROR"}
       THEN /\ error' = ErrorText("Watchdog Timeout", "System took too long to initialize")
            /\ systemState' = "ERROR"
            /\ visited' = Enter(visited, "ERROR")
            /\ failCalled' = TRUE
       ELSE UNCHANGED <<error, systemState, visited, failCalled>>
    /\ UNCHANGED <<initRef, effectPhase, startPc, cameraRef, smFailure>>
    /\ UNCHANGED <<hookEdition, clsVars, hookVars, streamVars, wkVars, stratVars, engineVars>>

\* The effect's cleanup: clearTimeout, camera.stop(), the tracks stopped.
\* The cleanup function itself; the App's unmount runs it together with the
\* cleanups of the App's own effects.
HookCleanupBody ==
    /\ effectPhase = "mounted"
    /\ effectPhase' = "cleaned"
    /\ watchdog' = IF watchdog = "armed" THEN "cleared" ELSE watchdog
    /\ cameraRef' = IF cameraRef = "null" THEN "null" ELSE "stopped"
    /\ UNCHANGED <<systemState, error, initRef, startPc, lifeObs>>

HookCleanup ==
    /\ HookCleanupBody
    /\ UNCHANGED <<hookEdition, clsVars, hookVars, streamVars, wkVars, stratVars, engineVars>>

MaxFrames == 2

\* The camera's onFrame: hands.send, answered by onResults.
CameraFrame ==
    /\ cameraRef = "running"
    /\ ClosureSystemState(systemState) # "ERROR"
    /\ ~sendInFlight
    /\ sendInFlight' = TRUE
    /\ UNCHANGED <<wkRequest, wkReply, wkOutstanding, wkHandData, wkDetectObs>>
    /\ UNCHANGED <<hookEdition, clsVars, hookVars, streamVars, lifeVars, lifeObs, wkVars, stratVars, psVars,
                   loopVars>>

\* The detector finishes a send and invokes the results callback; the
\* callback tests nothing before it writes.
HandsResults ==
    /\ sendInFlight
    /\ sendInFlight' = FALSE
    /\ \E landmarks \in DetectorResults :
        /\ Len(landmarks) = 0 \/ Len(gestureBuffer) < MaxFrames
        /\ IF hookEdition = "plain" THEN onResultsPlain(landmarks) ELSE onResults(landmarks)
    /\ UNCHANGED <<wkRequest, wkReply, wkOutstanding, wkHandData, wkDetectObs>>
    /\ UNCHANGED <<hookEdition, clsVars, streamVars, lifeVars, lifeObs, wkVars, stratVars, psVars, loopVars>>

(***************************************************************************)
(* Lifecycle of the hand-tracking hook, worker edition: the effect,        *)
(* setupCamera (one action per await) and the cleanup.  This edition       *)
(* returns handDataRef alone.                                              *)
(***************************************************************************)
\* What the app can read as SystemState from the worker edition: nothing.
WorkerSystemState == "UNDEFINED"

\* catch (err) { console.error("Camera setup failed", err) }
WkCatch(kind) ==
    /\ wkPc' = "failed"
    /\ wkFailure' = kind

\* useEffect: guard, new Worker, isRunning = true, setupCamera() up to getUserMedia.
WkEffect ==
    /\ wkPhase \in {"none", "cleaned"}
    /\ IF wkInitRef
       THEN /\ wkPhase' = "skipped"
            /\ UNCHANGED <<wkInitRef, wkPc, wkIsRunning, wkWorker, wkLandmarker, wkFailure>>
       ELSE /\ wkInitRef' = TRUE
            /\ wkWorker' = "alive"
            /\ wkIsRunning' = TRUE
            /\ wkPc' = "getUserMedia"
            /\ wkPhase' = "mounted"
            /\ UNCHANGED <<wkLandmarker, wkFailure>>
    /\ UNCHANGED <<hookEdition, clsVars, hookVars, streamVars, lifeVars, lifeObs, stratVars, engineVars>>

\* getUserMedia is over: granted (video.play(), then wait for the metadata) or denied.
WkAfterUserMedia ==
    /\ wkPc = "getUserMedia"
    /\ \/ /\ wkPc' = "metadata"
          /\ UNCHANGED wkFailure
       \/ WkCatch("permission")
    /\ UNCHANGED <<wkInitRef, wkPhase, wkIsRunning, wkWorker, wkLandmarker>>
    /\ UNCHANGED <<hookEdition, clsVars, hookVars, streamVars, lifeVars, lifeObs, stratVars, engineVars>>

\* onloadedmetadata: api.init() is sent to the worker.
WkAfterMetadata ==
    /\ wkPc = "metadata"
    /\ wkPc' = "init"
    /\ UNCHANGED <<wkInitRef, wkPhase, wkIsRunning, wkWorker, wkLandmarker, wkFailure>>
    /\ UNCHANGED <<hookEdition, clsVars, hookVars, streamVars, lifeVars, lifeObs, stratVars, engineVars>>

\* api.init() answers (a terminated worker never does): true with the landmarker
\* created, or false after its own catch; setupCamera ignores the answer and calls loop().
WkAfterInit ==
    /\ wkPc = "init"
    /\ wkWorker = "alive"
    /\ wkPc' = "loop"
    /\ \/ /\ wkLandmarker' = "ready"
          /\ UNCHANGED wkFailure
       \/ /\ wkFailure' = "detector"
          /\ UNCHANGED wkLandmarker
    /\ UNCHANGED <<wkInitRef, wkPhase, wkIsRunning, wkWorker>>
    /\ UNCHANGED <<hookEdition, clsVars, hookVars, streamVars, lifeVars, lifeObs, stratVars, engineVars>>

\* The effect's cleanup: isRunning = false, the pending frame cancelled,
\* worker.terminate(), the tracks stopped.  A request the worker has not
\* taken yet is never answered; an answer the worker had already posted is
\* delivered or dropped, depending on the browser.
WkCleanup ==
    /\ wkPhase = "mounted"
    /\ wkPhase' = "cleaned"
    /\ wkIsRunning' = FALSE
    /\ wkWorker' = "terminated"
    /\ wkReply' \in {wkReply, NoReply}
    /\ UNCHANGED <<wkInitRef, wkPc, wkLandmarker, wkFailure>>
    /\ UNCHANGED <<sendInFlight, wkRequest, wkOutstanding, wkHandData, wkDetectObs>>
    /\ UNCHANGED <<hookEdition, clsVars, hookVars, streamVars, lifeVars, lifeObs, stratVars, psVars, loopVars>>

(***************************************************************************)
(* The worker edition's detection loop.  wkPc = "loop": loop is about to   *)
(* be entered (called by setupCamera or requested as an animation frame);  *)
(* "bitmap": waiting for createImageBitmap; "detect": waiting for the      *)
(* answer of api.detect; "stopped": loop returned without a new frame.     *)
(***************************************************************************)
MaxOutstanding == 2

\* A loop that does not wait for the answer (used to test the properties).
AfterDetectSentNoWait(pc) == "loop"

\* `await api.detect(...)`: the loop waits for the answer.
AfterDetectSent(pc) == "detect"

WkOthers == <<hookEdition, clsVars, hookVars, streamVars, lifeVars, lifeObs, stratVars, psVars, loopVars>>

\* Entry of loop: the isRunning test, then createImageBitmap(video).
WkLoopEnter ==
    /\ wkPc = "loop"
    /\ wkPc' = IF wkIsRunning THEN "bitmap" ELSE "stopped"
    /\ UNCHANGED <<wkInitRef, wkPhase, wkIsRunning, wkWorker, wkLandmarker, wkFailure>>
    /\ UNCHANGED <<flightVars, WkOthers>>

\* The bitmap is there: api.detect is sent to the worker (nothing is tested
\* after the await).
WkSendDetect ==
    /\ wkPc = "bitmap"
    /\ wkOutstanding < MaxOutstanding
    /\ wkPc' = AfterDetectSent(wkPc)
    /\ wkRequest' = TRUE
    /\ wkOutstanding' = wkOutstanding + 1
    /\ UNCHANGED <<wkInitRef, wkPhase, wkIsRunning, wkWorker, wkLandmarker, wkFailure>>
    /\ UNCHANGED <<sendInFlight, wkReply, wkHandData, wkDetectObs, WkOthers>>

\* What handLandmarker.detectForVideo can do: throw, or give a result.
DetectThrows == [kind |-> "throw", landmarks |-> <<>>]

DetectorOutcomes == {DetectThrows} \cup {ResultReply(l) : l \in DetectorResults}

\* api.detect with a catch that does not close (used to test the properties).
detectLeaky(landmarker, outcome) ==
    IF landmarker # "ready"
    THEN [calls |-> <<"close", "return">>, reply |-> NullReply]
    ELSE IF outcome = DetectThrows
         THEN [calls |-> <<"detectForVideo", "console.error", "return">>, reply |-> NullReply]
         ELSE [calls |-> <<"detectForVideo", "close", "return">>, reply |-> outcome]

\* api.detect(imageBitmap, timestamp): the calls it makes, in order, and what
\* it returns; the last call is "return" or "throw".
detect(landmarker, outcome) ==
    IF landmarker # "ready"
    THEN [calls |-> <<"close", "return">>, reply |-> NullReply]
    ELSE IF outcome = DetectThrows
         THEN [calls |-> <<"detectForVideo", "close", "console.error", "return">>,
               reply |-> NullReply]
         ELSE [calls |-> <<"detectForVideo", "close", "return">>, reply |-> outcome]

\* Inside the worker, api.detect: null without a landmarker or when
\* detectForVideo throws, its result otherwise.
WkWorkerDetect ==
    /\ wkWorker = "alive"
    /\ wkRequest
    /\ wkRequest' = FALSE
    /\ \E outcome \in DetectorOutcomes :
          /\ wkDetectObs' = detect(wkLandmarker, outcome)
          /\ wkReply' = wkDetectObs'.reply
    /\ UNCHANGED <<wkInitRef, wkPhase, wkPc, wkIsRunning, wkWorker, wkLandmarker, wkFailure>>
    /\ UNCHANGED <<sendInFlight, wkOutstanding, wkHandData, WkOthers>>

\* The answer arrives: the loop resumes, publishes the hands when there is a
\* result, and requests the next frame.
WkDetectAnswer ==
    /\ wkReply # NoReply
    /\ wkReply' = NoReply
    /\ wkOutstanding' = wkOutstanding - 1
    /\ wkHandData' = IF wkReply = NullReply
                     THEN wkHandData
                     ELSE [hands |-> MappedHands(wkReply.landmarks), distance |-> 999,
                           isHandshake |-> FALSE]
    /\ wkPc' = "loop"
    /\ UNCHANGED <<wkInitRef, wkPhase, wkIsRunning, wkWorker, wkLandmarker, wkFailure>>
    /\ UNCHANGED <<sendInFlight, wkRequest, wkDetectObs, WkOthers>>

(***************************************************************************)
(* SpecLifecycle: both editions of the hook, started, failed, watched and  *)
(* cleaned up.                                                             *)
(***************************************************************************)
LifeSpecInit ==
    /\ IdleHarness
    /\ HookInit
    /\ StreamInit
    /\ LifeInit
    /\ WkInit
    /\ StratInit
    /\ FboInit(Unwritten("zero"))
    /\ PsInit(0)
    /\ LoopInit
    /\ FlightInit

LifeNext ==
    \/ HookEffect
    \/ AfterGlobals
    \/ AfterUserMedia
    \/ AfterVideoPlay
    \/ AfterCameraStart
    \/ WatchdogFire
    \/ HookCleanup
    \/ CameraFrame
    \/ HandsResults
    \/ WkEffect
    \/ WkAfterUserMedia
    \/ WkAfterMetadata
    \/ WkAfterInit
    \/ WkCleanup
    \/ WkLoopEnter
    \/ WkSendDetect
    \/ WkWorkerDetect
    \/ WkDetectAnswer

SpecLifecycle == LifeSpecInit /\ [][LifeNext]_vars

(***************************************************************************)
(* The three simulation strategies, as far as the gesture drives them: the *)
(* app's shape effect (ParticleSystem.setShape), the frame callback of the *)
(* GPU hook and the frame callback of the CPU particle component.  All     *)
(* three read what the state-machine edition of the hook publishes.        *)
(***************************************************************************)
\* useEffect(() => { ...setShape(detectedGesture) }, [detectedGesture, audioStarted]):
\* runs after the render in which detectedGesture changed.
ShapeEffect ==
    /\ shapeEffectSeen # detectedGesture
    /\ shapeEffectSeen' = detectedGesture
    /\ setShape(detectedGesture)
    /\ UNCHANGED <<psCount, positions, colors, currentColor, psOps, psTicks, psCall, loopVars>>
    /\ UNCHANGED <<hookEdition, clsVars, hookVars, streamVars, lifeVars, lifeObs, wkVars, gpuVars, cpuVars, flightVars>>

\* The morph factor is kept in 1/ShapeScale, rounded away from zero.
ShapeScale == 20

\* targetShape of the switch over the gesture.
TargetShapeFactor(gesture) ==
    IF gesture \in {"THUMBS_UP", "PEACE", "TWO_HAND_CLASP"} THEN ShapeScale ELSE 0

\* targetGestureShape.current of the switch over the gesture.
TargetShapeName(gesture) ==
    CASE gesture = "THUMBS_UP"      -> "SPHERE"
      [] gesture = "PEACE"          -> "HEART"
      [] gesture = "TWO_HAND_CLASP" -> "CUBE"
      [] OTHER                      -> NULL

\* uShapeFactor += (targetShape - uShapeFactor) * 0.1
LerpShapeFactor(v, target) ==
    IF target >= v THEN v + ((target - v) + 9) \div 10
                   ELSE v - ((v - target) + 9) \div 10

\* useFrame of useGPGPU: uniforms, gesture from the raw landmarks, render into
\* `current`, uInit off, swap.  (uTime, the clock, is left out.)
\* One run of the simulation fragment shader over the target: main samples
\* uCurrentPosition, adds the flow and the attraction to the sample and mixes
\* the sum with the texel's sphere position by uShapeFactor.  The output
\* derives from what was read unless the factor is 1; the shader declares no
\* uInit uniform.
SimulationPass(read, shapeFactor) ==
    IF shapeFactor = ShapeScale
    THEN [kind |-> "sim", base |-> "shape"]
    ELSE [kind |-> "sim", base |-> read.base]

\* The shape the simulation pass morphs to: the shader computes one target,
\* the sphere position of the texel (targetPos), whatever the gesture; the
\* arrays of targetShapes are never handed to the material.
ShaderTargetShape == "SPHERE"

\* mix(noisePos, targetPos * 1.5, uShapeFactor): noise flow alone at factor 0.
MorphTarget(shapeFactor) == IF shapeFactor > 0 THEN ShaderTargetShape ELSE NULL

\* Roles that are not exchanged (used to test the properties).
KeepTargets(t) == t

\* targets.current.current = previous; targets.current.previous = current
SwapTargets(t) == [current |-> t.previous, previous |-> t.current]

\* useFrame of Particles: the texture of the component's last render is
\* bound to the particle material.
ParticlesUseFrame == uPositionTexture' = particlesTexture

\* A render of Particles: useGPGPU returns targets.current.previous.texture.
ParticlesRender ==
    /\ particlesTexture' = gpuTargets.previous
    /\ UNCHANGED <<gpuTargets, uCurrentPosition, gpuRendered, uInit, uShapeFactor, uMouse,
                   gpuCurrentGesture, targetGestureShape, fboData, uPositionTexture>>
    /\ UNCHANGED <<hookEdition, clsVars, hookVars, streamVars, lifeVars, lifeObs, wkVars, appVars,
                   cpuVars, engineVars>>

\* One frame of the canvas: the useFrame callback of useGPGPU, then the one
\* of Particles (subscribers run in the order of their registration).
GpuFrame ==
    LET hands   == handData.hands
        gesture == ClassifiedN[handData.rawLandmarks]
    IN  /\ handData.rawLandmarks \in StrategyResults
        /\ uCurrentPosition' = gpuTargets.previous
        /\ uMouse' = IF Len(hands) > 0
                     THEN [x |-> hands[1].x, y |-> hands[1].y, z |-> hands[1].z]
                     ELSE uMouse
        /\ gpuCurrentGesture' = gesture
        /\ targetGestureShape' = TargetShapeName(gesture)
        /\ uShapeFactor' = LerpShapeFactor(uShapeFactor, TargetShapeFactor(gesture))
        /\ gpuRendered' = gpuTargets.current
        /\ uInit' = 0
        /\ fboData' = [fboData EXCEPT ![gpuTargets.current] =
                            SimulationPass(fboData[gpuTargets.previous], uShapeFactor')]
        /\ gpuTargets' = SwapTargets(gpuTargets)
        /\ ParticlesUseFrame
        /\ UNCHANGED particlesTexture
        /\ UNCHANGED <<hookEdition, clsVars, hookVars, streamVars, lifeVars, lifeObs, wkVars, appVars, cpuVars, engineVars>>

\* COLORS of the CPU particle component.
CpuColors ==
    [IDLE |-> "00ffff", THUMBS_UP |-> "00ffff", PEACE |-> "ff1744", CLASP |-> "00e676"]

\* useFrame of CPUParticles, its gesture part: classification of the raw landmarks,
\* gesture tracking, colour target.
CpuFrame ==
    LET gesture == ClassifiedCpu[handData.rawLandmarks]
    IN  /\ handData.rawLandmarks \in StrategyResults
        /\ cpuCurrentGesture' = gesture
        /\ cpuTargetColor' = IF gesture \in DOMAIN CpuColors THEN CpuColors[gesture]
                                                           ELSE CpuColors["IDLE"]
        /\ UNCHANGED <<hookEdition, clsVars, hookVars, streamVars, lifeVars, lifeObs, wkVars, appVars, gpuVars, engineVars>>

\* Number of places where the window changes its label.
Switches(buffer) == Cardinality({i \in 1..(Len(buffer) - 1) : buffer[i] # buffer[i + 1]})

MaxSwitches == 1

\* One detection cycle of the hook; the windows are kept to MaxSwitches label changes.
StrategyCycle ==
    /\ \E landmarks \in StrategyResults :
        /\ Len(landmarks) = 0
           \/ Switches(PushSample(gestureBuffer, Classified[landmarks])) <= MaxSwitches
        /\ onResults(landmarks)
    /\ UNCHANGED <<hookEdition, clsVars, streamVars, lifeVars, lifeObs, wkVars, stratVars, engineVars>>

StratNext ==
    \/ StrategyCycle
    \/ ShapeEffect
    \/ GpuFrame
    \/ CpuFrame

SpecStrategies == SmInit /\ [][StratNext]_vars

(***************************************************************************)
(* SpecGpu: the GPU hook alone on top of the detection cycle, started with *)
(* either content of the target its first frame reads.                     *)
(***************************************************************************)
GpuSpecInit ==
    /\ IdleHarness
    /\ HookInit
    /\ StreamInit
    /\ LifeInit
    /\ WkInit
    /\ StratInit
    /\ \E readContent \in InitialContents : FboInit(readContent)
    /\ PsInit(0)
    /\ LoopInit
    /\ FlightInit

GpuNext ==
    \/ StrategyCycle
    \/ GpuFrame
    \/ ParticlesRender

SpecGpu == GpuSpecInit /\ [][GpuNext]_vars

(***************************************************************************)
(* SpecParticles: a ParticleSystem of 0..MaxParticles particles under      *)
(* setShape calls and update ticks, with and without a hand.               *)
(***************************************************************************)
MaxParticles == 2

MaxPsOps == 1

MaxTicks == 5

\* The inputState objects the render loop builds: no hand, a hand at (x, y) in 1/100
\* with the committed gesture, rewritten to OPEN for the open hand.
InputStates ==
    {[active |-> FALSE, x |-> 0, y |-> 0, gesture |-> "SPHERE", mouseHover |-> FALSE,
      isPinching |-> "UNDEFINED"]}
    \cup {[active |-> TRUE, x |-> -30, y |-> -30, gesture |-> g, mouseHover |-> FALSE,
            isPinching |-> FALSE] : g \in {"OPEN", "SPHERE"}}

PsSpecInit ==
    /\ IdleHarness
    /\ HookInit
    /\ StreamInit
    /\ LifeInit
    /\ WkInit
    /\ StratInit
    /\ FboInit(Unwritten("zero"))
    /\ \E count \in 0..MaxParticles : PsInit(count)
    /\ LoopInit
    /\ FlightInit

\* The behaviours explored change the shape at most once.
MaxShapeChanges == 1

ShapeChanges == IF currentShape = "SPHERE" THEN 0 ELSE 1

\* particleSystem.setShape(type)
PsSetShape ==
    /\ \E type \in SHAPES \cup UnknownShapes :
        /\ type \in SHAPES => ShapeChanges < MaxShapeChanges
        /\ UNCHANGED psOps
        /\ setShape(type)
        /\ psCall' = <<"setShape", type>>
    /\ UNCHANGED <<psCount, positions, colors, currentColor, psTicks, shapeEffectSeen, loopVars>>
    /\ UNCHANGED <<hookEdition, clsVars, hookVars, streamVars, lifeVars, lifeObs, wkVars, gpuVars, cpuVars, flightVars>>

\* particleSystem.update(time, inputState)
PsUpdate ==
    /\ psTicks < MaxTicks
    /\ psTicks' = psTicks + 1
    /\ \E inputState \in InputStates :
        /\ inputState.active => psOps < MaxPsOps
        /\ psOps' = IF inputState.active THEN psOps + 1 ELSE psOps
        /\ update(inputState)
        /\ psCall' = <<"update", inputState>>
    /\ UNCHANGED <<psCount, targetPositions, loopVars>>
    /\ UNCHANGED <<hookEdition, clsVars, hookVars, streamVars, lifeVars, lifeObs, wkVars, stratVars, flightVars>>

PsNext == PsSetShape \/ PsUpdate

SpecParticles == PsSpecInit /\ [][PsNext]_vars

(***************************************************************************)
(* The App component: its effects and its render loop.  The component uses *)
(* the state-machine hook; its ParticleSystem is built by the first        *)
(* effect.  One flush of passive effects is one action: React runs the     *)
(* effects whose dependencies changed in declaration order, the shape      *)
(* effect before the render-loop effect.                                   *)
(***************************************************************************)
PinchThreshold == 6

\* A tick that never sees the hand (used to test the properties).
BuildInputStateBlind(data, gesture) ==
    [active |-> FALSE, x |-> 0, y |-> 0, gesture |-> gesture, mouseHover |-> FALSE,
     isPinching |-> "UNDEFINED"]

\* animate's input mapping: the slot is read when the tick runs; `gesture`
\* is the detectedGesture the closure was created with.
BuildInputState(data, gesture) ==
    IF Len(data.hands) > 0
    THEN LET hand == data.hands[1]
             hasLandmarks == Len(data.rawLandmarks) > 0
             landmarks == data.rawLandmarks[1]
         IN  [active |-> TRUE,
              x |-> hand.x,
              y |-> hand.y,
              gesture |-> IF hasLandmarks /\ gesture = "FIREWORKS" THEN "OPEN" ELSE gesture,
              mouseHover |-> FALSE,
              isPinching |-> IF hasLandmarks
                             THEN Dist2(LM(landmarks, 4), LM(landmarks, 8)) < Sq(PinchThreshold)
                             ELSE "UNDEFINED"]
    ELSE [active |-> FALSE, x |-> 0, y |-> 0, gesture |-> gesture, mouseHover |-> FALSE,
          isPinching |-> "UNDEFINED"]

\* The dependencies of the render-loop effect that the model tracks.
LoopDeps == <<systemState, detectedGesture, audioStarted>>

\* One call of animate with the closure's gesture, against the given target
\* arrays and target colour: particleSystem.update, then the next frame is
\* requested.
Animate(gesture, target, colorName) ==
    LET inputState == BuildInputState(handData, gesture)
    IN  /\ currentColor' = LerpColor(currentColor, COLORS[colorName])
        /\ positions' \in UpdatedPositions(positions, target, psCount,
                                           Interaction(inputState))
        /\ colors' = ColorArray(currentColor', Len(colors))
        /\ psCall' = <<"update", inputState>>
        /\ psTicks < MaxTicks
        /\ psTicks' = psTicks + 1
        /\ updateInState' = systemState
        /\ frameIdRef' = "pending"

\* cancelAnimationFrame(frameIdRef.current) under `if (frameIdRef.current)`:
\* the frame the ref names is the last one requested; it is taken from the
\* browser's list unless it was cancelled before.
CancelFrame(ref, pending) == IF ref = "pending" /\ pending > 0 THEN pending - 1 ELSE pending

\* A cleanup of the render-loop effect that does not cancel (used to test
\* the properties).
LoopCleanupNoCancel(ref, pending) == pending

\* Cleanup of the render-loop effect: the pending frame is cancelled and
\* frameIdRef.current set to null.
LoopCleanup(ref, pending) == CancelFrame(ref, pending)

\* A flush of the App's effects: on the first flush everything runs; later
\* only the effects whose dependencies changed.  The shape effect calls
\* setShape(detectedGesture); the render-loop effect cancels the frame of
\* the previous run and starts a new chain with a first call of animate.
AppEffects ==
    LET runShape == \/ shapeEffectSeen # detectedGesture
                    \/ loopSeen # <<>> /\ loopSeen[3] # audioStarted
        runLoop == loopSeen # LoopDeps
        known == detectedGesture \in SHAPES
    IN  /\ appMounted \in {"none", "mounted"}
        /\ runShape \/ runLoop
        /\ appMounted' = "mounted"
        /\ shapeEffectSeen' = detectedGesture
        /\ loopSeen' = LoopDeps
        /\ currentShape' = IF runShape /\ known THEN detectedGesture ELSE currentShape
        /\ targetColor' = IF runShape /\ known THEN ShapeColor(detectedGesture) ELSE targetColor
        /\ targetPositions' \in IF runShape /\ known
                                THEN ShapeOutputs(detectedGesture, psCount)
                                ELSE {targetPositions}
        /\ IF runLoop
           THEN /\ Animate(detectedGesture, targetPositions', targetColor')
                /\ rafPending' = (IF loopSeen = <<>> THEN rafPending
                                  ELSE LoopCleanup(frameIdRef, rafPending)) + 1
           ELSE /\ psCall' = <<"setShape", detectedGesture>>
                /\ UNCHANGED <<positions, colors, currentColor, psTicks, updateInState,
                               frameIdRef, rafPending>>
        /\ UNCHANGED <<psCount, psOps, audioStarted>>
        /\ UNCHANGED <<hookEdition, clsVars, hookVars, streamVars, lifeVars, lifeObs, wkVars, gpuVars, cpuVars, flightVars>>

\* The browser runs the requested frame: animate of the chain started by the
\* last run of the render-loop effect.
AnimationFrame ==
    /\ rafPending > 0
    /\ Animate(loopSeen[2], targetPositions, targetColor)
    /\ rafPending' = (rafPending - 1) + 1
    /\ UNCHANGED <<psCount, targetPositions, psOps, appMounted, loopSeen, audioStarted>>
    /\ UNCHANGED <<hookEdition, clsVars, hookVars, streamVars, lifeVars, lifeObs, wkVars, stratVars, flightVars>>

\* Unmount: the hook's cleanup, then the cleanups of the App's effects: the
\* init effect's cancels the pending frame, the render-loop effect's cancels
\* the same frame again and resets frameIdRef.
AppUnmount ==
    /\ appMounted = "mounted"
    /\ HookCleanupBody
    /\ appMounted' = "unmounted"
    /\ frameIdRef' = NULL
    /\ rafPending' = LoopCleanup(frameIdRef, CancelFrame(frameIdRef, rafPending))
    /\ UNCHANGED <<loopSeen, updateInState, audioStarted, psVars>>
    /\ UNCHANGED <<hookEdition, clsVars, hookVars, streamVars, wkVars, stratVars, flightVars>>

\* handleStartAudio: the first click starts the audio system and sets
\* audioStarted.
StartAudio ==
    /\ appMounted = "mounted"
    /\ ~audioStarted
    /\ audioStarted' = TRUE
    /\ UNCHANGED <<appMounted, frameIdRef, loopSeen, updateInState, rafPending, psVars>>
    /\ UNCHANGED <<hookEdition, clsVars, hookVars, streamVars, lifeVars, lifeObs, wkVars, stratVars,
                   flightVars>>

AppParticles == 1

AppSpecInit ==
    /\ IdleHarness
    /\ hookEdition \in HookEditions
    /\ SlotInit
    /\ StreamInit
    /\ LifeInit
    /\ WkInit
    /\ StratInit
    /\ FboInit(Unwritten("zero"))
    /\ PsInit(AppParticles)
    /\ LoopInit
    /\ FlightInit

AppNext ==
    \/ HookEffect
    \/ AfterGlobals
    \/ AfterUserMedia
    \/ AfterVideoPlay
    \/ AfterCameraStart
    \/ WatchdogFire
    \/ CameraFrame
    \/ HandsResults
    \/ AppEffects
    \/ AnimationFrame
    \/ StartAudio
    \/ AppUnmount

SpecApp == AppSpecInit /\ [][AppNext]_vars

(***************************************************************************)
(* The App while the hook is READY and the camera delivers frames: the     *)
(* detection callback commits gestures, the effects follow the commits and *)
(* the render loop ticks in between.                                       *)
(***************************************************************************)
LifeReady ==
    /\ systemState = "READY"
    /\ error = NULL
    /\ initRef = TRUE
    /\ effectPhase = "mounted"
    /\ startPc = "done"
    /\ watchdog = "armed"
    /\ cameraRef = "running"
    /\ visited = <<"BOOTSTRAP", "LOADING_ASSETS", "INITIALIZING_AI", "READY">>
    /\ failCalled = FALSE
    /\ smFailure = "NONE"

ShapeSpecInit ==
    /\ IdleHarness
    /\ HookInit
    /\ StreamInit
    /\ LifeReady
    /\ WkInit
    /\ StratInit
    /\ FboInit(Unwritten("zero"))
    /\ PsInit(AppParticles)
    /\ LoopInit
    /\ FlightInit

ShapeNext ==
    \/ StrategyCycle
    \/ AppEffects
    \/ AnimationFrame
    \/ StartAudio

SpecShape == ShapeSpecInit /\ [][ShapeNext]_vars

(***************************************************************************)
(* Classifier harness: one input, drawn from ClassifierInputs, to which    *)
(* each classifier is applied once.  An input records, next to the hands,  *)
(* how it was built: the stretched fingers of the primary hand (ext) and   *)
(* the offset of the second hand from the first (off).                     *)
(***************************************************************************)
KeypointsPerHand == 21

\* Keypoint counts of the malformed hands tried.
MalformedLens == {0, 4, 9, 13, 17, 20}

\* Offsets of the second hand: inside, on and outside the 0.1 and 0.25 thresholds.
Offsets == {<<6, 0>>, <<8, 6>>, <<10, 0>>, <<20, 15>>, <<24, 0>>, <<40, 0>>}

SecondHands == {{}, {"THUMB"}, Fingers}

Input(hands, ext, off) == [hands |-> hands, ext |-> ext, off |-> off]

OneHandInputs ==
    {Input(<<Skeleton(e)>>, e, <<0, 0>>) : e \in SUBSET Fingers}

TwoHandInputs ==
    {Input(<<Skeleton(e), Shift(Skeleton(f), o[1], o[2])>>, e, o) :
        e \in SUBSET Fingers, f \in SecondHands, o \in Offsets}

MalformedInputs ==
    {Input(<<Truncate(Skeleton(e), n)>>, e, <<0, 0>>) :
        e \in SecondHands, n \in MalformedLens}
    \cup
    {Input(<<Truncate(Skeleton(e), n), Shift(Skeleton(e), o[1], o[2])>>, e, o) :
        e \in SecondHands, n \in MalformedLens, o \in {<<6, 0>>, <<40, 0>>}}

ClassifierInputs ==
    {Input(<<>>, {}, <<0, 0>>)} \cup OneHandInputs \cup TwoHandInputs \cup MalformedInputs

WellFormed(hands) == \A i \in 1..Len(hands) : Len(hands[i]) = KeypointsPerHand

ClsInit ==
    /\ clsInput \in ClassifierInputs
    /\ clsCount = "PENDING"
    /\ clsNamed = "PENDING"
    /\ clsCpu = "PENDING"
    /\ HookInit
    /\ StreamInit
    /\ LifeInit
    /\ WkInit
    /\ StratInit
    /\ FboInit(Unwritten("zero"))
    /\ PsInit(0)
    /\ LoopInit
    /\ FlightInit

ClassifyCount ==
    /\ clsCount = "PENDING"
    /\ clsCount' = detectGesture(clsInput.hands)
    /\ UNCHANGED <<clsInput, clsNamed, clsCpu>>
    /\ UNCHANGED <<hookEdition, hookVars, streamVars, lifeVars, lifeObs, wkVars, stratVars, engineVars>>

ClassifyNamed ==
    /\ clsNamed = "PENDING"
    /\ clsNamed' = detectGestureN(clsInput.hands)
    /\ UNCHANGED <<clsInput, clsCount, clsCpu>>
    /\ UNCHANGED <<hookEdition, hookVars, streamVars, lifeVars, lifeObs, wkVars, stratVars, engineVars>>

ClassifyCpu ==
    /\ clsCpu = "PENDING"
    /\ WellFormed(clsInput.hands)
    /\ clsCpu' = cpuDetectGesture(clsInput.hands)
    /\ UNCHANGED <<clsInput, clsCount, clsNamed>>
    /\ UNCHANGED <<hookEdition, hookVars, streamVars, lifeVars, lifeObs, wkVars, stratVars, engineVars>>

ClsNext == ClassifyCount \/ ClassifyNamed \/ ClassifyCpu

SpecClassifier == ClsInit /\ [][ClsNext]_vars

(***************************************************************************)
(* Properties of the classifiers (checked under SpecClassifier).           *)
(***************************************************************************)
IsMalformed(hands) == \E i \in 1..Len(hands) : Len(hands[i]) < KeypointsPerHand

Off2(in) == Sq(in.off[1]) + Sq(in.off[2])

\* C5: for an input in which some hand has fewer than 21 keypoints, both variants of
\* detectGesture return their neutral label (SPHERE, IDLE) and do not throw.
C5_MalformedIsNeutral ==
    IsMalformed(clsInput.hands) =>
        /\ clsCount \in {"PENDING", "SPHERE"}
        /\ clsNamed \in {"PENDING", "IDLE"}

C7_FingerCountTable ==
    (clsCount # "PENDING" /\ WellFormed(clsInput.hands)) =>
        LET n == Cardinality(clsInput.ext)
        IN  /\ (Len(clsInput.hands) = 0 \/ n \in {0, 1}) => clsCount = "SPHERE"
            /\ (Len(clsInput.hands) > 0 /\ n = 2) => clsCount = "FLOWER"
            /\ (Len(clsInput.hands) > 0 /\ n = 3) => clsCount = "SATURN"
            /\ (Len(clsInput.hands) > 0 /\ n = 4) => clsCount = "HEART"
            /\ (Len(clsInput.hands) > 0 /\ n = 5) => clsCount = "FIREWORKS"

\* A primary hand with four stretched fingers, the thumb curled, has been classified HEART.
C7_Witness ==
    /\ Len(clsInput.hands) > 0
    /\ clsInput.ext = Fingers \ {"THUMB"}
    /\ clsCount = "HEART"

(***************************************************************************)
(* Properties of the lifecycle (checked under SpecLifecycle).              *)
(***************************************************************************)
LifecycleOrder == <<"BOOTSTRAP", "LOADING_ASSETS", "INITIALIZING_AI", "READY">>

IsPrefix(s, t) == Len(s) <= Len(t) /\ \A i \in 1..Len(s) : s[i] = t[i]

\* C8: ERROR is terminal: once systemState is ERROR no step of the hook (a step of
\* startSystem, the watchdog, the cleanup, a detection result) changes it.
C8_ErrorIsTerminal == [][(systemState = "ERROR") => (systemState' = "ERROR")]_vars

\* C9: as long as fail() has not been called, the values systemState has taken are a
\* prefix of BOOTSTRAP, LOADING_ASSETS, INITIALIZING_AI, READY: each state at most
\* once, in this order, never back.
C9_MonotonicWithoutFailure == (~failCalled) => IsPrefix(visited, LifecycleOrder)

\* C9 witness: the hook went all the way to READY without a failure, the effect having
\* been cleaned up and run again on the way.
C9_Witness ==
    /\ ~failCalled
    /\ systemState = "READY"
    /\ visited = LifecycleOrder
    /\ effectPhase = "skipped"

ErrorIsReadable(e) == e # NULL /\ \E i \in 1..Len(e) : e[i] # ""

\* C10: every failure of the landmark source during initialisation (globals missing,
\* detector not created, camera permission denied, camera not started) ends in
\* SystemState ERROR with a non-empty message, in the state-machine edition and in the
\* worker edition of the hook.
C10_InitFailureSurfaces ==
    /\ (smFailure # "NONE") => (systemState = "ERROR" /\ ErrorIsReadable(error))
    /\ (wkFailure # "NONE") => (WorkerSystemState = "ERROR")

(***************************************************************************)
(* Properties of the strategies (checked under SpecStrategies).            *)
(***************************************************************************)
\* The labels a classifier table gives the poses whose finger-count label is g.
LabelsOfCommitted(table, g) ==
    {table[p] : p \in {q \in StrategyResults : Classified[q] = g}}

\* C4: every strategy acts on the smoothed gesture only: whenever the shape of the
\* ParticleSystem, the gesture of the GPU hook or the gesture of the CPU component
\* changes, it changes to the committed gesture (for the GPU hook and the CPU
\* component: to the label their classifier gives a pose of the committed gesture).
C4_StrategiesSeeSmoothedOnly ==
    [][ /\ (currentShape' # currentShape) => (currentShape' = detectedGesture')
        /\ (gpuCurrentGesture' # gpuCurrentGesture) =>
              (gpuCurrentGesture' \in LabelsOfCommitted(ClassifiedN, detectedGesture'))
        /\ (cpuCurrentGesture' # cpuCurrentGesture) =>
              (cpuCurrentGesture' \in LabelsOfCommitted(ClassifiedCpu, detectedGesture')) ]_vars

(***************************************************************************)
(* Properties of the ParticleSystem (checked under SpecParticles).         *)
(***************************************************************************)
\* C18: after setShape with a shape id that is no key of SHAPES the ParticleSystem
\* is on the default shape: current shape SPHERE, target positions the sphere's.
C18_UnknownShapeFallsBack ==
    (psCall[1] = "setShape" /\ psCall[2] \notin SHAPES) =>
        /\ currentShape = "SPHERE"
        /\ targetPositions \in ShapeOutputs("SPHERE", psCount)

\* C19: the live positions, the colours and the target positions have length
\* 3 x particle count, after construction and after every setShape and update.
C19_ArrayLengths ==
    /\ Len(positions) = 3 * psCount
    /\ Len(colors) = 3 * psCount
    /\ Len(targetPositions) = 3 * psCount

\* C19 witness: two particles (Saturn's sphere part and ring part), a shape change
\* and updates behind them; and the empty particle field after an update.
C19_Witness ==
    /\ psCount = 2
    /\ currentShape = "SATURN"
    /\ psCall[1] = "update"
    /\ Len(targetPositions) = 6

C19_WitnessEmpty == psCount = 0 /\ psCall[1] = "update" /\ currentShape = "FLOWER"

Abs(n) == IF n >= 0 THEN n ELSE -n

RECURSIVE SumAbsDiff(_, _, _)
SumAbsDiff(a, b, k) == IF k = 0 THEN 0 ELSE Abs(a[k] - b[k]) + SumAbsDiff(a, b, k - 1)

\* The position error norm: the sum of the per-axis distances between live and target.
ErrorNorm(pos, target) == SumAbsDiff(pos, target, Len(pos))

NoHand == [active |-> FALSE, x |-> 0, y |-> 0, gesture |-> "SPHERE", mouseHover |-> FALSE,
           isPinching |-> "UNDEFINED"]

\* No update without a hand can move any particle any more.
Settled == UpdatedPositions(positions, targetPositions, psCount, Interaction(NoHand)) = {positions}

\* C20 as stated: without a hand and with a fixed target the error falls below any
\* given epsilon after enough ticks; so where no further tick can change a position,
\* the error is zero.
C20_ErrorVanishes == Settled => (ErrorNorm(positions, targetPositions) = 0)

\* C20, amended: every update tick without a hand leaves the error norm no larger, and
\* strictly smaller on every axis that every speed of the tick still moves (an axis
\* whose distance times the speed is below half the stored resolution stays put).
C20_ErrorNonIncreasing ==
    [][ (psCall' = <<"update", NoHand>> /\ psTicks' = psTicks + 1) =>
           /\ ErrorNorm(positions', targetPositions) <= ErrorNorm(positions, targetPositions)
           /\ \A k \in 1..Len(positions) :
                 (\A speed \in Speeds : Lerp(positions[k], targetPositions[k], speed) # positions[k])
                     => Abs(positions'[k] - targetPositions[k]) < Abs(positions[k] - targetPositions[k])
      ]_vars

\* C20 witness: one particle on its way from the sphere to the heart, moved by ticks
\* without a hand only, and not there yet.
C20_Witness ==
    /\ psCount = 1
    /\ currentShape = "HEART"
    /\ psOps = 1
    /\ psCall = <<"update", NoHand>>
    /\ ErrorNorm(positions, targetPositions) > 0
    /\ ErrorNorm(positions, targetPositions) < 73

(***************************************************************************)
(* Properties of the smoother.                                             *)
(***************************************************************************)
\* C1: processing one detection sample changes the committed gesture only if, after the
\* sample is pushed, the window holds exactly 15 entries and every entry equals the
\* newest one; and a sample that differs from the sample before it never changes the
\* committed gesture, so a strictly alternating sequence commits nothing.
C1_CommitOnlyUnanimous ==
    [][ /\ (detectedGesture' # detectedGesture) =>
              /\ Len(gestureBuffer') = 15
              /\ \A i \in 1..Len(gestureBuffer') :
                    gestureBuffer'[i] = gestureBuffer'[Len(gestureBuffer')]
              /\ detectedGesture' = gestureBuffer'[Len(gestureBuffer')]
        /\ (fedLabel' # fedLabel) => (detectedGesture' = detectedGesture)
      ]_vars

\* A full window of strictly alternating samples, after FIREWORKS had been committed.
C1_Witness ==
    /\ detectedGesture = "FIREWORKS"
    /\ Len(gestureBuffer) = 15
    /\ \A i \in 1..14 : gestureBuffer[i] # gestureBuffer[i + 1]

\* C2: whenever the same label has been fed to the smoother 15 times in a row, whatever
\* the window and the committed gesture were before, the committed gesture is that label.
C2_UnanimousRunCommits ==
    (fedRun >= 15) => (detectedGesture = fedLabel)

\* FIREWORKS fed 15 times in a row has replaced the initial SPHERE.
C2_Witness ==
    /\ fedRun = 15
    /\ fedLabel = "FIREWORKS"
    /\ detectedGesture = "FIREWORKS"

\* C3: whenever the detector's classification has been the same label for 15 detection
\* cycles in a row, cycles without a hand (classified SPHERE) included, the committed
\* gesture is that label.
C3_LatencyIsWindowSize ==
    (cycleRun >= 15) => (detectedGesture = cycleLabel)

(***************************************************************************)
(* C11: the render loop calls ParticleSystem.update only while the         *)
(* SystemState is READY.  The render-loop effect tests only that the       *)
(* renderer, scene, camera and particle system exist, so animate runs from *)
(* the first flush on: this invariant is violated (update is called in     *)
(* BOOTSTRAP).                                                             *)
(***************************************************************************)
C11_UpdateOnlyWhenReady == updateInState \in {"NONE", "READY"}

(***************************************************************************)
(* C13: every render tick reads the most recently published detection      *)
(* result, and once a newer result is published no tick observes an older  *)
(* one.  For the GPU hook's frame callback: the gesture it derives is the  *)
(* gesture of the last result the detector delivered.  Violated: a result  *)
(* without hands only empties `hands`, so rawLandmarks keeps the landmarks *)
(* of the older result and the next GPU frame classifies those.            *)
(***************************************************************************)
C13_TicksReadLatest ==
    [][ (gpuTargets' # gpuTargets) => (gpuCurrentGesture' = ClassifiedN[published']) ]_vars

\* The App's animate reads `hands` first, which every result replaces: its
\* view is that of the last result delivered.
C13_AppTicksReadLatest ==
    [][ (hookEdition = "smoothed" /\ psTicks' # psTicks /\ psCall'[1] = "update") =>
            LET view == psCall'[2]
            IN  /\ view.active = (Len(published') > 0)
                /\ view.active => /\ view.x = MirrorCoord(LM(published'[1], 9).x)
                                  /\ view.y = MirrorCoord(LM(published'[1], 9).y) ]_vars

(***************************************************************************)
(* C17: when the committed gesture changes to a recognised shape id,       *)
(* before the next update tick the target positions are the shape's        *)
(* generator output and the target colour is the shape's palette colour or *)
(* the default.  As an action property: every update tick runs with the    *)
(* target of the committed gesture.  Violated: a frame of the previous     *)
(* loop, requested before the commit, runs before the effects do.          *)
(***************************************************************************)
PaletteColor(type) == IF type \in DOMAIN COLORS THEN type ELSE "DEFAULT"

TargetIsShape(type) ==
    /\ currentShape = type
    /\ targetPositions \in ShapeOutputs(type, psCount)
    /\ targetColor = PaletteColor(type)

C17_TickSeesCommittedShape ==
    [][ (psTicks' # psTicks /\ detectedGesture \in SHAPES) =>
            /\ currentShape' = detectedGesture
            /\ targetPositions' \in ShapeOutputs(detectedGesture, psCount)
            /\ targetColor' = PaletteColor(detectedGesture) ]_vars

(***************************************************************************)
(* C17 as the code has it: whenever a frame is pending, the target is that *)
(* of the gesture the render loop was started with; the shape effect runs  *)
(* before the render-loop effect of the same flush, so every tick of the   *)
(* restarted loop, its first included, sees the new target.                *)
(***************************************************************************)
C17_LoopSeesItsShape ==
    (frameIdRef = "pending" /\ loopSeen[2] \in SHAPES) => TargetIsShape(loopSeen[2])

C17_Witness ==
    /\ frameIdRef = "pending"
    /\ loopSeen[2] \in SHAPES \ {"SPHERE"}
    /\ TargetIsShape(loopSeen[2])
    /\ positions # targetPositions
    /\ psCall[1] = "update"

(***************************************************************************)
(* C12: after the hook's cleanup no detection call still in flight writes  *)
(* handDataRef or the smoothed gesture.  For the state-machine hook: while *)
(* the effect is cleaned up, handData and detectedGesture do not change.   *)
(* Violated: the results callback of a send that was in flight at cleanup  *)
(* writes without testing anything.                                        *)
(***************************************************************************)
C12_NoWriteAfterCleanup ==
    [][ /\ (effectPhase = "cleaned" /\ effectPhase' = "cleaned") =>
            (handData' = handData /\ detectedGesture' = detectedGesture)
        /\ (wkPhase = "cleaned" /\ wkPhase' = "cleaned") => (wkHandData' = wkHandData) ]_vars

(***************************************************************************)
(* C14: the worker edition of the hook has at most one detection request   *)
(* outstanding: the loop sends api.detect, waits for the answer, and only  *)
(* then requests the frame that sends the next one.                        *)
(***************************************************************************)
C14_OneRequestOutstanding ==
    /\ wkOutstanding <= 1
    /\ (wkRequest \/ wkReply # NoReply) => wkOutstanding = 1
    /\ wkPc \in {"loop", "bitmap"} => wkOutstanding = 0

\* A second request has been sent after the answer to the first one arrived.
C14_Witness ==
    /\ wkOutstanding = 1
    /\ wkRequest
    /\ Len(wkHandData.hands) > 0

(***************************************************************************)
(* C15: the GPU strategy's two buffers: in every tick the buffer read and  *)
(* the buffer written are distinct, the roles alternate from tick to tick, *)
(* and the buffer written in tick k is the one read in tick k+1.  After a  *)
(* tick, gpuRendered is the buffer it wrote and uCurrentPosition the one   *)
(* it read; targets.previous is what the next tick reads and               *)
(* targets.current what it writes.                                         *)
(***************************************************************************)
C15_PingPong ==
    /\ gpuTargets.current # gpuTargets.previous
    /\ gpuRendered # NULL =>
          /\ gpuRendered # uCurrentPosition
          /\ gpuTargets.previous = gpuRendered
          /\ gpuTargets.current = uCurrentPosition
          /\ fboData[gpuRendered].kind = "sim"

\* Two ticks done: the second read what the first wrote, and wrote what the
\* first read.
C15_Witness ==
    /\ gpuRendered = "fbo2"
    /\ uCurrentPosition = "fbo1"
    /\ fboData["fbo1"].kind = "sim"
    /\ fboData["fbo2"].kind = "sim"

(***************************************************************************)
(* C16: the first GPU tick is an init pass that writes a seeded            *)
(* distribution independent of the read buffer, so nothing a pass ever     *)
(* wrote derives from the initial content of a buffer.  Violated: the      *)
(* first frame runs the ordinary pass, and its output derives from the     *)
(* never-written target it sampled; uInit is only set and cleared.         *)
(***************************************************************************)
C16_FirstTickSeeds ==
    \A b \in DOMAIN fboData :
        fboData[b].kind = "sim" => fboData[b].base \in {"seed", "shape"}

(***************************************************************************)
(* C21: with interaction active in REPEL mode, every particle that is      *)
(* within the influence radius of the interaction point at a non-zero      *)
(* distance is farther from the point after one update tick than before,   *)
(* whatever its position and its target.  Violated: update pushes the lerp *)
(* target, not the particle, and the lerp towards a target on the other    *)
(* side of the point outweighs the push near the edge of the radius.       *)
(***************************************************************************)
DistSq(p, force) ==
    (p[1] - force.x) * (p[1] - force.x) + (p[2] - force.y) * (p[2] - force.y) + p[3] * p[3]

C21_RepelMovesAway ==
    [][ (psTicks' = psTicks + 1 /\ psCall'[1] = "update" /\ psCall'[2].active
            /\ psCall'[2].gesture = "OPEN") =>
          LET force == Interaction(psCall'[2])
          IN  \A i \in 0..(psCount - 1) :
                (DistSq(PointAt(positions, i), force) > 0
                    /\ DistSq(PointAt(positions, i), force) < InteractRadius * InteractRadius)
                  => DistSq(PointAt(positions', i), force) > DistSq(PointAt(positions, i), force)
      ]_vars

(***************************************************************************)
(* C22: the active flag passed to update is true if and only if the most   *)
(* recent completed detection result contains at least one hand; after a   *)
(* result without hands every tick sees active = false until a hand is     *)
(* detected again.  Violated on the hook edition without the smoother: its *)
(* callback leaves the slot untouched for a result without hands, so the   *)
(* last hand stays in `hands` and every later tick is active.              *)
(***************************************************************************)
C22_ActiveIffHandPresent ==
    [][ (psTicks' # psTicks /\ psCall'[1] = "update") =>
            (psCall'[2].active = (Len(published') > 0)) ]_vars

(***************************************************************************)
(* C23: the force mode is REPEL for the open-hand gesture, ATTRACT when a  *)
(* pinch is detected and NONE otherwise: with a hand present, a gesture    *)
(* other than the open hand and no pinch, an update tick displaces no      *)
(* particle target, i.e. it moves the particles as a tick without a hand   *)
(* would.  Violated: update never reads isPinching and attracts whenever   *)
(* a hand is present and the mode is not repel.                            *)
(***************************************************************************)
C23_NoForceWithoutPinch ==
    [][ (psTicks' = psTicks + 1 /\ psCall'[1] = "update" /\ psCall'[2].active
            /\ psCall'[2].gesture # "OPEN" /\ ~psCall'[2].mouseHover
            /\ psCall'[2].isPinching = FALSE) =>
          positions' \in UpdatedPositions(positions, targetPositions, psCount, Interaction(NoHand))
      ]_vars

(***************************************************************************)
(* C24: a target shape is immutable once generated and is regenerated only *)
(* when the active shape id changes: once the shape effect has run for the *)
(* committed gesture, a step that leaves the committed gesture unchanged   *)
(* (a render tick, a detection result, audio being started) leaves the     *)
(* target-positions array unchanged.  Violated: audioStarted is a          *)
(* dependency of the shape effect, so the first click calls setShape again *)
(* and the generator draws a new array.                                    *)
(***************************************************************************)
C24_TargetImmutable ==
    [][ (shapeEffectSeen = detectedGesture /\ detectedGesture' = detectedGesture) =>
            targetPositions' = targetPositions ]_vars

(***************************************************************************)
(* C25: the 15 s watchdog moves the hook to ERROR only if SystemState is   *)
(* neither READY nor ERROR at the moment it fires: a timer that fires      *)
(* after READY was reached leaves the state READY.  Violated: the timer    *)
(* callback tests the systemState of the render that created it,           *)
(* BOOTSTRAP, and calls fail() whatever the present state is.              *)
(***************************************************************************)
C25_WatchdogSparesReady ==
    [][ (watchdog = "armed" /\ watchdog' = "fired" /\ systemState = "READY") =>
            systemState' = "READY" ]_vars

(***************************************************************************)
(* C26: after every GPU tick the position texture the particle renderer    *)
(* samples (uPositionTexture, the value useGPGPU returned) is the buffer   *)
(* written during that tick.  Violated: the hook's return value is read    *)
(* when Particles renders, not in the frame; after the first tick the      *)
(* material samples fbo2 while the tick wrote fbo1.                        *)
(***************************************************************************)
C26_RendererSamplesWritten == gpuRendered # NULL => uPositionTexture = gpuRendered

(***************************************************************************)
(* C27: on the GPU strategy the morph shape follows the gesture:           *)
(* THUMBS_UP gives the sphere, PEACE the heart, TWO_HAND_CLASP the cube.   *)
(* After a frame whose gesture has a shape, the pass morphs to that shape. *)
(* Violated: the gesture only selects targetGestureShape and the factor;   *)
(* the shader's target is the sphere for PEACE and TWO_HAND_CLASP too.     *)
(***************************************************************************)
C27_GestureSelectsShape ==
    [][ (gpuTargets' # gpuTargets /\ TargetShapeName(gpuCurrentGesture') # NULL) =>
            MorphTarget(uShapeFactor') = targetGestureShape' ]_vars

(***************************************************************************)
(* C28: the worker's detect never throws to its caller and releases its    *)
(* input on every path: without a landmarker, when detection succeeds and  *)
(* when it fails, the ImageBitmap is closed exactly once and detect        *)
(* returns; the result is null without a landmarker and after a failure.   *)
(***************************************************************************)
Closes(calls) == Cardinality({i \in 1..Len(calls) : calls[i] = "close"})

C28_DetectClosesOnce ==
    wkDetectObs.calls # <<>> =>
        /\ Closes(wkDetectObs.calls) = 1
        /\ wkDetectObs.calls[Len(wkDetectObs.calls)] = "return"
        /\ (\/ wkLandmarker # "ready"
            \/ \E i \in 1..Len(wkDetectObs.calls) : wkDetectObs.calls[i] = "console.error") =>
               wkDetectObs.reply = NullReply

\* detectForVideo threw on a live landmarker, and the hook got the null.
C28_Witness ==
    /\ wkLandmarker = "ready"
    /\ wkDetectObs.calls = <<"detectForVideo", "close", "console.error", "return">>
    /\ wkReply = NullReply

(***************************************************************************)
(* C29: the initRef guard makes the initialisation run at most once, and   *)
(* after the effect sequence run, cleanup, run again (Strict Mode) the     *)
(* pipeline is still live: the worker is alive and its loop is running.    *)
(* Violated: the second run is skipped by the guard, and the cleanup in    *)
(* between has terminated the worker and cleared isRunning.                *)
(***************************************************************************)
C29_LiveAfterSecondRun == wkPhase = "skipped" => (wkWorker = "alive" /\ wkIsRunning)

(***************************************************************************)
(* C30: at most one animation-frame chain of the render loop is scheduled  *)
(* at any time: across every re-run of the render-loop effect and across   *)
(* unmount the pending frame is cancelled before a new loop starts.  The   *)
(* browser holds one requested frame exactly when frameIdRef names one,    *)
(* and none after unmount.                                                 *)
(***************************************************************************)
C30_OneFrameChain ==
    /\ rafPending = IF frameIdRef = "pending" THEN 1 ELSE 0
    /\ appMounted = "unmounted" => rafPending = 0

\* The render-loop effect ran again after audio was started, and one frame
\* is pending.
C30_Witness ==
    /\ loopSeen # <<>>
    /\ loopSeen[3]
    /\ psTicks >= 2
    /\ rafPending = 1

\* C30 as stated, its consequence: ParticleSystem.update runs at most once
\* per display frame, so every update after the first is made by a frame
\* callback (which leaves the effect's dependencies as they were).
\* Violated: a re-run of the render-loop effect calls animate itself.
C30_UpdateOncePerFrame ==
    [][ (psTicks' = psTicks + 1 /\ psTicks > 0) => loopSeen' = loopSeen ]_vars

====
